---- MODULE Spec2Model ----
(***************************************************************************)
(* Model of the action-dispatch / session-bridging core of crawl-demo:     *)
(*   src/src/mcp_wrapper.py           MCPWrapper, MCPSession               *)
(*   src/src/mcp_bridge.py            MCPBridge (Playwright backed)        *)
(*   src/src/real_mcp_integration.py  RealMCPIntegration                   *)
(*   src/src/crawl_engine.py          CrawlEngine                          *)
(*   src/src/orchestrator.py          CrawlOrchestrator                    *)
(* Every object is a record-valued variable; every method is an operator   *)
(* from (object state, arguments, backend outcomes) to the new object      *)
(* state and what the call returned or raised.  Backend outcomes (does a   *)
(* Playwright / Crawl4AI call return or raise) are inputs drawn with \E.   *)
(***************************************************************************)
EXTENDS Integers, Sequences, FiniteSets, TLC

(***************************************************************************)
(* Values                                                                  *)
(***************************************************************************)
\* Python None for URL-typed fields.  URLs are strings of path tokens so
\* that `a in b` (substring) and truthiness (`x or y`) are computed.
None == <<"None">>
\* Python None for the other string-typed keyword arguments (a missing key:
\* kwargs.get(k) / params.get(k) return None).
NoneStr == "None"

EmptyUrl == <<>>
LoginUrl == <<"login">>
LoginErrUrl == <<"login", "?error">>
HomeUrl == <<"home">>
BlankUrl == <<"about:blank">>
\* a click that does not navigate
Stay == <<"stay">>

\* bounds of the model
\* calls made on the session and on the bridge, together
MaxCalls == 3
\* calls made on the integration
MaxAuthCalls == 2
\* workflows run on the orchestrator
MaxWorkflows == 2
\* scroll_times of dynamic_content_extract
MaxScroll == 1
\* anchors of a document handed to extract_from_html
MaxLinks == 2
\* urls handed to one parallel_extract, and parallel_extract calls made
MaxTasks == 2
MaxGathers == 2
\* execute_action calls started on a session whose calls may overlap
MaxFlights == 3
\* threads that call into one ThreadSafeCrawler
MaxCallers == 2

\* url arguments a caller may pass (None = key absent)
UrlArgs == {None, LoginUrl, HomeUrl}
StrArgs == {NoneStr, "v"}

\* the keyword arguments of one execute_action call
Kwargs == [url : UrlArgs, selector : StrArgs, text : StrArgs,
           username : StrArgs, password : StrArgs]

\* the keyword arguments execute_action reads for an action name (the
\* others are absent)
KwargsFor(action) ==
    {kw \in Kwargs :
        /\ action # "navigate" => kw.url = None
        /\ action \notin {"click", "type", "wait"} => kw.selector = NoneStr
        /\ action # "type" => kw.text = NoneStr
        /\ action # "authenticate"
              => kw.username = NoneStr /\ kw.password = NoneStr}

\* action names a caller may dispatch: the eight execute_action handles and
\* two it does not ("close" of the documented vocabulary, and a typo)
SupportedActions == {"navigate", "click", "type", "snapshot", "wait",
                     "evaluate", "get_html", "authenticate"}
ActionNames == SupportedActions \cup {"close", "scroll"}

\* what a call produced when it raised instead of returning
NoResult == [action |-> "", status |-> "", message |-> "", url |-> None]

(***************************************************************************)
(* MCPWrapper (src/src/mcp_wrapper.py).  A wrapper operation takes the     *)
(* wrapper state w and yields [w, raised, result, ops]: ops lists the      *)
(* wrapper operations entered, in order.                                   *)
(***************************************************************************)
MCPWrapperInit == [current_url |-> None]

WrapperReturn(w, res, ops) ==
    [w |-> w, raised |-> FALSE, result |-> res, ops |-> ops]

WrapperRaise(w, ops) ==
    [w |-> w, raised |-> TRUE, result |-> NoResult, ops |-> ops]

WrapperNavigate(w, url) ==
    WrapperReturn([w EXCEPT !.current_url = url],
                  [action |-> "navigate", status |-> "success",
                   message |-> "Successfully navigated", url |-> url],
                  <<"navigate">>)

WrapperClick(w, selector) ==
    WrapperReturn(w, [action |-> "click", status |-> "success",
                      message |-> "", url |-> None], <<"click">>)

\* text[:20] in the print subscripts None when the text argument is absent
WrapperTypeText(w, selector, text) ==
    IF text = NoneStr
    THEN WrapperRaise(w, <<"type_text">>)
    ELSE WrapperReturn(w, [action |-> "type", status |-> "success",
                           message |-> "", url |-> None], <<"type_text">>)

WrapperTakeSnapshot(w) ==
    WrapperReturn(w, [action |-> "snapshot", status |-> "success",
                      message |-> "", url |-> w.current_url],
                  <<"take_snapshot">>)

WrapperWaitForElement(w, selector) ==
    WrapperReturn(w, [action |-> "wait", status |-> "success",
                      message |-> "", url |-> None], <<"wait_for_element">>)

WrapperEvaluateJs(w) ==
    WrapperReturn(w, [action |-> "evaluate", status |-> "success",
                      message |-> "", url |-> None], <<"evaluate_js">>)

WrapperGetPageContent(w) ==
    WrapperReturn(w, [action |-> "get_html", status |-> "success",
                      message |-> "", url |-> None], <<"get_page_content">>)

\* type username, type password, click submit; the first raise ends it
WrapperHandleAuthentication(w, username, password) ==
    LET t1 == WrapperTypeText(w, "input[name='username']", username)
        t2 == WrapperTypeText(w, "input[name='password']", password)
        h == <<"handle_authentication">>
    IN IF t1.raised THEN WrapperRaise(w, h \o t1.ops)
       ELSE IF t2.raised THEN WrapperRaise(w, h \o t1.ops \o t2.ops)
       ELSE WrapperReturn(w, [action |-> "authenticate",
                              status |-> "success",
                              message |-> "Authentication completed",
                              url |-> None],
                          h \o t1.ops \o t2.ops \o <<"click">>)

(***************************************************************************)
(* MCPSession (src/src/mcp_wrapper.py)                                     *)
(***************************************************************************)
MCPSessionInit == [wrapper |-> MCPWrapperInit, history |-> <<>>]

\* SessionDispatch without its else branch: result stays None for a name
\* no branch matches
SessionDispatch_NoElse(w, action, kw) ==
    CASE action = "navigate" -> WrapperNavigate(w, kw.url)
      [] action = "click" -> WrapperClick(w, kw.selector)
      [] action = "type" -> WrapperTypeText(w, kw.selector, kw.text)
      [] action = "snapshot" -> WrapperTakeSnapshot(w)
      [] action = "wait" -> WrapperWaitForElement(w, kw.selector)
      [] action = "evaluate" -> WrapperEvaluateJs(w)
      [] action = "get_html" -> WrapperGetPageContent(w)
      [] action = "authenticate" ->
            WrapperHandleAuthentication(w, kw.username, kw.password)
      [] OTHER -> WrapperReturn(w, NoResult, <<>>)

\* the wrapper call execute_action selects for an action name
SessionDispatch(w, action, kw) ==
    CASE action = "navigate" -> WrapperNavigate(w, kw.url)
      [] action = "click" -> WrapperClick(w, kw.selector)
      [] action = "type" -> WrapperTypeText(w, kw.selector, kw.text)
      [] action = "snapshot" -> WrapperTakeSnapshot(w)
      [] action = "wait" -> WrapperWaitForElement(w, kw.selector)
      [] action = "evaluate" -> WrapperEvaluateJs(w)
      [] action = "get_html" -> WrapperGetPageContent(w)
      [] action = "authenticate" ->
            WrapperHandleAuthentication(w, kw.username, kw.password)
      [] OTHER -> WrapperReturn(w, [action |-> action, status |-> "error",
                                    message |-> "Unknown action",
                                    url |-> None], <<>>)

\* execute_action: dispatch, then history.append(result) and return; a
\* raise inside the wrapper leaves before the append
execute_action(s, action, kw) ==
    LET d == SessionDispatch(s.wrapper, action, kw)
    IN IF d.raised
       THEN [session |-> [s EXCEPT !.wrapper = d.w], raised |-> TRUE,
             result |-> NoResult, ops |-> d.ops]
       ELSE [session |-> [wrapper |-> d.w,
                          history |-> Append(s.history, d.result)],
             raised |-> FALSE, result |-> d.result, ops |-> d.ops]

\* MCPSession.get_current_url
SessionGetCurrentUrl(s) == s.wrapper.current_url

\* the actions whose wrapper operation suspends (asyncio.sleep) before it
\* returns: wait_for_element, and handle_authentication after its clicks
Suspending == {"wait", "authenticate"}

\* no execute_action call made yet.  suspended: the calls waiting in their
\* sleep, each with the result its wrapper operation will return; started:
\* calls made; prev: the history before the last step of any call
FlightInit == [suspended |-> <<>>, started |-> 0, prev |-> <<>>]

\* execute_action up to its first suspension: [session, pending]; pending
\* holds the call when it is left suspended in its wrapper operation
ExecuteUntilSuspended(s, action, kw) ==
    LET d == SessionDispatch(s.wrapper, action, kw)
    IN IF action \in Suspending /\ ~d.raised
       THEN [session |-> [s EXCEPT !.wrapper = d.w],
             pending |-> <<[action |-> action, result |-> d.result]>>]
       ELSE [session |-> execute_action(s, action, kw).session,
             pending |-> <<>>]

\* a suspended call resumes: self.history.append(result); return result
ResumeExecute(s, call) ==
    [s EXCEPT !.history = Append(@, call.result)]

\* q without its i-th element
Without(q, i) == SubSeq(q, 1, i - 1) \o SubSeq(q, i + 1, Len(q))

(***************************************************************************)
(* MCPBridge (src/src/mcp_bridge.py).  The bridge holds references to the  *)
(* Playwright objects; a reference is "None", or refers to an object that  *)
(* is "open" or has been "closed" in the backend.  page_url is the url     *)
(* property of the Page object _page refers to.                            *)
(***************************************************************************)
MCPBridgeInit ==
    [browser_active |-> FALSE, current_page_url |-> None,
     action_history |-> <<>>, _playwright |-> FALSE, _browser |-> "None",
     _page |-> "None", _context |-> "None", page_url |-> BlankUrl]

\* MCPResult(success, data, error): data and error are "None" when unset;
\* url is the data["url"] entry where the data carries one
MCPResult(success, data, url, error) ==
    [success |-> success, data |-> data, url |-> url, error |-> error]

\* a bridge call yields the new bridge state, the MCPResult, the
\* Playwright calls it made, and whether its except branch ran
BridgeRet(b, res, backend) ==
    [b |-> b, res |-> res, backend |-> backend, caught |-> FALSE]

\* str(e) of the exception a method caught
ExcText == "str(e)"

\* the MCPResult built by an except branch: f"<prefix>: {str(e)}"
Caught(prefix) == MCPResult(FALSE, "None", None, prefix \o ": " \o ExcText)

\* a bridge call whose try block raised: the except branch returns
BridgeCaught(b, prefix, backend) ==
    [b |-> b, res |-> Caught(prefix), backend |-> backend, caught |-> TRUE]

NotInitialized == MCPResult(FALSE, "None", None, "Browser not initialized")

\* which Playwright call of launch_browser raises, if it is reached
LaunchOutcomes == {"ok", "start_raises", "close_raises", "launch_raises",
                   "context_raises", "page_raises"}

\* a Playwright call on the page returns or raises
CallOutcomes == {"ok", "raise"}

\* wait_for_selector followed by fill / click
ActOutcomes == {"ok", "wait_raises", "act_raises"}

\* which close of close_browser raises, if it is reached
CloseOutcomes == {"ok", "page_raises", "context_raises", "browser_raises"}

\* where a click may leave the page: it stays, or a submission navigates
ClickTargets == {Stay, HomeUrl, LoginErrUrl}

\* closing a Browser closes the context and page created from it
Closed(ref) == IF ref = "None" THEN "None" ELSE "closed"

\* MCPBridge.initialize: start Playwright once; a failure is swallowed
initialize(b, lo) ==
    IF ~b._playwright /\ lo # "start_raises"
    THEN [b EXCEPT !._playwright = TRUE]
    ELSE b

\* MCPBridge.launch_browser: [b, ok, backend]
launch_browser(b, lo) ==
    LET b0 == initialize(b, lo)
        s0 == IF b._playwright THEN <<>> ELSE <<"playwright.start">>
        closing == b0._browser # "None"
        b1 == IF closing
              THEN [b0 EXCEPT !._browser = "closed",
                              !._context = Closed(b0._context),
                              !._page = Closed(b0._page)]
              ELSE b0
        s1 == IF closing THEN s0 \o <<"browser.close">> ELSE s0
        b2 == [b1 EXCEPT !._browser = "open"]
        b3 == [b2 EXCEPT !._context = "open"]
        b4 == [b3 EXCEPT !._page = "open", !.page_url = BlankUrl,
                         !.browser_active = TRUE]
    IN IF closing /\ lo = "close_raises"
       THEN [b |-> b0, ok |-> FALSE, backend |-> s1]
       ELSE IF ~b1._playwright
       THEN [b |-> b1, ok |-> FALSE, backend |-> s1]
       ELSE IF lo = "launch_raises"
       THEN [b |-> b1, ok |-> FALSE, backend |-> s1 \o <<"launch">>]
       ELSE IF lo = "context_raises"
       THEN [b |-> b2, ok |-> FALSE,
             backend |-> s1 \o <<"launch", "new_context">>]
       ELSE IF lo = "page_raises"
       THEN [b |-> b3, ok |-> FALSE,
             backend |-> s1 \o <<"launch", "new_context", "new_page">>]
       ELSE [b |-> b4, ok |-> TRUE,
             backend |-> s1 \o <<"launch", "new_context", "new_page">>]

\* a Playwright call on a page whose browser was closed raises
PageRaises(b, o) == b._page = "closed" \/ o # "ok"

\* MCPBridge.navigate
navigate(b, url, lo, o) ==
    LET l == IF b._page = "None" THEN launch_browser(b, lo)
             ELSE [b |-> b, ok |-> TRUE, backend |-> <<>>]
        b1 == l.b
    IN IF b1._page = "None"
       THEN BridgeCaught(b1, "Navigation failed", l.backend)
       ELSE IF PageRaises(b1, o) \/ url = None
       THEN BridgeCaught(b1, "Navigation failed", l.backend \o <<"goto">>)
       ELSE BridgeRet([b1 EXCEPT !.current_page_url = url,
                                 !.page_url = url,
                                 !.action_history = Append(@, "navigate")],
                      MCPResult(TRUE, "url,status,ok", url, "None"),
                      l.backend \o <<"goto">>)

\* MCPBridge.type_text
type_text(b, selector, text, o) ==
    IF b._page = "None" THEN BridgeRet(b, NotInitialized, <<>>)
    ELSE IF b._page = "closed" \/ o = "wait_raises"
    THEN BridgeCaught(b, "Type failed", <<"wait_for_selector">>)
    ELSE IF o = "act_raises" \/ text = NoneStr
    THEN BridgeCaught(b, "Type failed", <<"wait_for_selector", "fill">>)
    ELSE BridgeRet([b EXCEPT !.action_history = Append(@, "type")],
                   MCPResult(TRUE, "selector,element", None, "None"),
                   <<"wait_for_selector", "fill">>)

\* MCPBridge.click_element; a successful click may navigate the page
click_element(b, selector, o, target) ==
    IF b._page = "None" THEN BridgeRet(b, NotInitialized, <<>>)
    ELSE IF b._page = "closed" \/ o = "wait_raises"
    THEN BridgeCaught(b, "Click failed", <<"wait_for_selector">>)
    ELSE IF o = "act_raises"
    THEN BridgeCaught(b, "Click failed", <<"wait_for_selector", "click">>)
    ELSE BridgeRet([b EXCEPT !.action_history = Append(@, "click"),
                             !.page_url = IF target = Stay THEN @
                                          ELSE target],
                   MCPResult(TRUE, "selector,element", None, "None"),
                   <<"wait_for_selector", "click">>)

\* the bridge methods that make one Playwright call and keep no state:
\* wait_for_element, get_page_content, take_screenshot,
\* evaluate_javascript, check_element_exists, get_snapshot
PageQuery(b, o, call, data, error) ==
    IF b._page = "None" THEN BridgeRet(b, NotInitialized, <<>>)
    ELSE IF PageRaises(b, o)
    THEN BridgeCaught(b, error, <<call>>)
    ELSE BridgeRet(b, MCPResult(TRUE, data, None, "None"), <<call>>)

\* wait_for_element that logs its success in action_history
wait_for_element_Logged(b, selector, o) ==
    LET r == PageQuery(b, o, "wait_for_selector", "selector,found",
                       "Wait failed")
    IN IF r.res.success
       THEN [r EXCEPT !.b.action_history = Append(@, "wait")]
       ELSE r

wait_for_element(b, selector, o) ==
    PageQuery(b, o, "wait_for_selector", "selector,found", "Wait failed")

get_page_content(b, o) ==
    PageQuery(b, o, "content", "html,url", "Content extraction failed")

take_screenshot(b, o) ==
    PageQuery(b, o, "screenshot", "path", "Screenshot failed")

evaluate_javascript(b, o) ==
    PageQuery(b, o, "evaluate", "result", "JavaScript evaluation failed")

get_snapshot(b, o) ==
    PageQuery(b, o, "accessibility.snapshot", "snapshot", "Snapshot failed")

\* MCPBridge.wait_for_navigation: on success copies the page's url
wait_for_navigation(b, o) ==
    IF b._page = "None" THEN BridgeRet(b, NotInitialized, <<>>)
    ELSE IF PageRaises(b, o)
    THEN BridgeCaught(b, "Navigation wait failed", <<"wait_for_load_state">>)
    ELSE BridgeRet([b EXCEPT !.current_page_url = b.page_url],
                   MCPResult(TRUE, "url", b.page_url, "None"),
                   <<"wait_for_load_state">>)

\* MCPBridge.get_current_url: reads the page's url property (it is still
\* readable on a closed page) and copies it
get_current_url(b, o) ==
    IF b._page = "None" THEN BridgeRet(b, NotInitialized, <<>>)
    ELSE IF o # "ok"
    THEN BridgeCaught(b, "URL retrieval failed", <<"url">>)
    ELSE BridgeRet([b EXCEPT !.current_page_url = b.page_url],
                   MCPResult(TRUE, "url", b.page_url, "None"), <<"url">>)

\* MCPBridge.close_browser: page, context, browser are closed and their
\* references dropped one after the other; a raise leaves the rest as is
close_browser(b, co) ==
    LET failed == "Browser close failed"
        hasPage == b._page # "None"
        b1 == [b EXCEPT !._page = "None"]
        s1 == IF hasPage THEN <<"page.close">> ELSE <<>>
        hasContext == b._context # "None"
        b2 == [b1 EXCEPT !._context = "None"]
        s2 == IF hasContext THEN s1 \o <<"context.close">> ELSE s1
        hasBrowser == b._browser # "None"
        b3 == [b2 EXCEPT !._browser = "None"]
        s3 == IF hasBrowser THEN s2 \o <<"browser.close">> ELSE s2
    IN IF hasPage /\ co = "page_raises" THEN BridgeCaught(b, failed, s1)
       ELSE IF hasContext /\ co = "context_raises"
       THEN BridgeCaught(b1, failed, s2)
       ELSE IF hasBrowser /\ co = "browser_raises"
       THEN BridgeCaught(b2, failed, s3)
       ELSE BridgeRet([b3 EXCEPT !.browser_active = FALSE,
                                 !.current_page_url = None],
                      MCPResult(TRUE, "status", None, "None"), s3)

\* MCPBridge.is_browser_active
is_browser_active(b) == b.browser_active /\ b._page # "None"

\* the params dict of one _call_mcp_function call; NoParams is params=None
\* and a field equal to None / NoneStr is an absent key
BridgeParams == [url : UrlArgs, selector : StrArgs, text : StrArgs]
NoParams == [url |-> None, selector |-> "no params", text |-> NoneStr]

FunctionNames == {"browser_navigate", "browser_type", "browser_click",
                  "browser_wait_for", "browser_evaluate",
                  "browser_snapshot", "browser_close",
                  "browser_screenshot"}
\* two names the bridge does not map
CalledFunctions == FunctionNames \cup {"browser_tab_list", "browser_hover"}

\* the Playwright outcomes one bridge call may meet
Outcomes == [lo : LaunchOutcomes, co : CloseOutcomes, act : ActOutcomes,
             call : CallOutcomes, target : ClickTargets]

\* the outcomes that matter to the method a function name is mapped to
\* (the others are held at "ok")
OutcomesFor(function_name) ==
    {o \in Outcomes :
        /\ function_name # "browser_navigate" => o.lo = "ok"
        /\ function_name # "browser_close" => o.co = "ok"
        /\ function_name \notin {"browser_type", "browser_click"}
              => o.act = "ok"
        /\ function_name # "browser_click" => o.target = Stay
        /\ function_name \notin {"browser_navigate", "browser_wait_for",
                                 "browser_evaluate", "browser_snapshot",
                                 "browser_screenshot"} => o.call = "ok"}

\* the params keys the method a function name is mapped to reads (the
\* others are absent)
ParamsFor(function_name) ==
    {p \in BridgeParams :
        /\ function_name # "browser_navigate" => p.url = None
        /\ function_name \notin {"browser_type", "browser_click"}
              => p.selector = NoneStr
        /\ function_name \notin {"browser_type", "browser_wait_for"}
              => p.text = NoneStr} \cup {NoParams}

\* MCPBridge._call_mcp_function: params.get / "text" in params raise on
\* params=None and the outer except turns that into a failure result
_call_mcp_function(b, function_name, params, o) ==
    LET usesParams == function_name \in FunctionNames
                          \ {"browser_snapshot", "browser_close"}
    IN IF usesParams /\ params = NoParams
       THEN BridgeCaught(b, "MCP function call failed", <<>>)
       ELSE CASE function_name = "browser_navigate" ->
                    navigate(b, params.url, o.lo, o.call)
              [] function_name = "browser_type" ->
                    type_text(b, params.selector, params.text, o.act)
              [] function_name = "browser_click" ->
                    click_element(b, params.selector, o.act, o.target)
              [] function_name = "browser_wait_for" ->
                    IF params.text # NoneStr
                    THEN wait_for_element(b, params.text, o.call)
                    ELSE wait_for_navigation(b, o.call)
              [] function_name = "browser_evaluate" ->
                    evaluate_javascript(b, o.call)
              [] function_name = "browser_snapshot" ->
                    get_snapshot(b, o.call)
              [] function_name = "browser_close" -> close_browser(b, o.co)
              [] function_name = "browser_screenshot" ->
                    take_screenshot(b, o.call)
              [] OTHER -> BridgeRet(b, MCPResult(FALSE, "None", None,
                                                 "Unknown MCP function"),
                                    <<>>)

(***************************************************************************)
(* The simulated MCPBridge (src/src/mcp_bridge_simulated.py).  Its         *)
(* MCPResult dataclass declares data without a default, so constructing a  *)
(* result without data raises TypeError.  A method takes the bridge state  *)
(* m and yields [m, raised, res].                                          *)
(***************************************************************************)
SimBridgeInit == [browser_active |-> FALSE, current_page_url |-> None]

\* the data argument of an MCPResult(...) call that passes none
Missing == "missing"

SimRet(m, res) == [m |-> m, raised |-> FALSE, res |-> res]

SimRaise(m) ==
    [m |-> m, raised |-> TRUE, res |-> MCPResult(FALSE, "None", None, "None")]

\* return MCPResult(success=..., data=..., error=...): the constructor
\* raises when data is not passed
SimConstruct(m, success, data, url, error) ==
    IF data = Missing THEN SimRaise(m)
    ELSE SimRet(m, MCPResult(success, data, url, error))

\* the params dict of a simulated call: None, or a dict whose "text" and
\* "function" entries are as given
SimParams == [url : UrlArgs, text : StrArgs,
              function : {"outerHTML", "location.href", "other"}]
SimNoParams == [url |-> None, text |-> "no params", function |-> "other"]

SimFunctionNames == FunctionNames \cup {"browser_tab_list", "browser_hover"}

\* the params keys a simulated function reads (the others are held fixed)
SimParamsFor(function_name) ==
    {p \in SimParams :
        /\ function_name # "browser_navigate" => p.url = None
        /\ function_name # "browser_type" => p.text = "v"
        /\ function_name # "browser_evaluate" => p.function = "other"}
    \cup {SimNoParams}

\* MCPBridge._call_mcp_function of the simulated bridge.  An exception in
\* the try block (params is None, the text is None, or the data-less
\* MCPResult of the else branch) reaches the except branch, whose
\* MCPResult(success=False, error=...) has no data either.
Sim_call_mcp_function(m, function_name, params) ==
    LET readsParams == function_name \in {"browser_navigate", "browser_type",
                                          "browser_click",
                                          "browser_wait_for",
                                          "browser_evaluate"}
        except == SimConstruct(m, FALSE, Missing, None, "MCP call failed")
    IN IF readsParams /\ params = SimNoParams THEN except
       ELSE CASE function_name = "browser_navigate" ->
                    SimConstruct(m, TRUE, "status,url", params.url, "None")
              [] function_name = "browser_type" ->
                    IF params.text = NoneStr THEN except
                    ELSE SimConstruct(m, TRUE, "status,text", None, "None")
              [] function_name = "browser_click" ->
                    SimConstruct(m, TRUE, "status,element", None, "None")
              [] function_name = "browser_wait_for" ->
                    SimConstruct(m, TRUE, "status,selector", None, "None")
              [] function_name = "browser_evaluate" ->
                    IF params.function = "location.href"
                    THEN SimConstruct(m, TRUE, "result", m.current_page_url,
                                      "None")
                    ELSE SimConstruct(m, TRUE, "result", None, "None")
              [] function_name = "browser_snapshot" ->
                    SimConstruct(m, TRUE, "snapshot", None, "None")
              [] function_name = "browser_close" ->
                    SimConstruct(m, TRUE, "status", None, "None")
              [] function_name = "browser_tab_list" ->
                    SimConstruct(m, FALSE, "tabs", None, "None")
              [] OTHER -> except

\* the body shared by the simulated methods: call the function; when the
\* call raises, the method's own except branch builds a result without
\* data, which raises again
SimMethod(m, function_name, params, error) ==
    LET c == Sim_call_mcp_function(m, function_name, params)
    IN IF c.raised THEN SimConstruct(m, FALSE, Missing, None, error)
       ELSE c

SimDict == [url |-> None, text |-> "v", function |-> "other"]

\* MCPBridge.initialize_browser
initialize_browser(m) ==
    LET c == SimMethod(m, "browser_tab_list", SimDict,
                       "Browser initialization failed")
    IN IF c.raised THEN c
       ELSE IF c.res.success
       THEN SimConstruct([m EXCEPT !.browser_active = TRUE], TRUE,
                         "status", None, "None")
       ELSE SimConstruct([m EXCEPT !.browser_active = FALSE], TRUE,
                         "status", None, "None")

\* MCPBridge.navigate_to_url
navigate_to_url(m, url) ==
    LET c == SimMethod(m, "browser_navigate", [SimDict EXCEPT !.url = url],
                       "Navigation failed")
    IN IF c.raised \/ ~c.res.success THEN c
       ELSE SimConstruct([m EXCEPT !.browser_active = TRUE,
                                   !.current_page_url = url],
                         TRUE, "url,status", url, "None")

\* MCPBridge.type_text
SimTypeText(m, selector, text) ==
    SimMethod(m, "browser_type", [SimDict EXCEPT !.text = text],
              "Text input failed")

\* MCPBridge.click_element
SimClickElement(m, selector) ==
    SimMethod(m, "browser_click", SimDict, "Click failed")

\* MCPBridge.wait_for_element
SimWaitForElement(m, selector) ==
    SimMethod(m, "browser_wait_for", SimDict, "Wait failed")

\* MCPBridge.get_page_content
SimGetPageContent(m) ==
    LET c == SimMethod(m, "browser_evaluate",
                       [SimDict EXCEPT !.function = "outerHTML"],
                       "Content extraction failed")
    IN IF c.raised \/ ~c.res.success THEN c
       ELSE SimConstruct(m, TRUE, "content,url", m.current_page_url, "None")

\* MCPBridge.take_page_snapshot
take_page_snapshot(m) ==
    SimMethod(m, "browser_snapshot", SimDict, "Snapshot failed")

\* MCPBridge.get_current_url
SimGetCurrentUrl(m) ==
    LET c == SimMethod(m, "browser_evaluate",
                       [SimDict EXCEPT !.function = "location.href"],
                       "URL retrieval failed")
    IN IF c.raised \/ ~c.res.success THEN c
       ELSE SimConstruct([m EXCEPT !.current_page_url = c.res.url], TRUE,
                         "url", c.res.url, "None")

\* MCPBridge.close_browser
SimCloseBrowser(m) ==
    LET c == SimMethod(m, "browser_close", SimDict, "Browser close failed")
    IN IF c.raised \/ ~c.res.success THEN c
       ELSE [c EXCEPT !.m = [m EXCEPT !.browser_active = FALSE,
                                     !.current_page_url = None]]

(***************************************************************************)
(* RealMCPIntegration (src/src/real_mcp_integration.py).  The class body   *)
(* defines extract_authenticated_content, _error_result and close_session  *)
(* twice; the later definition replaces the earlier one, so the methods    *)
(* modelled are those of lines 349, 411 and 432.                           *)
(***************************************************************************)
NoAuthenticationState ==
    [authenticated |-> FALSE, login_url |-> None, current_url |-> None]

RealMCPIntegrationInit ==
    [session_active |-> FALSE, current_url |-> None,
     authentication_state |-> NoAuthenticationState,
     action_history |-> <<>>]

\* what a method of the integration returned: a result dict, or None
ResultDict(success, error, current_url) ==
    [value |-> "dict", success |-> success, error |-> error,
     current_url |-> current_url]

ReturnsNone ==
    [value |-> "None", success |-> FALSE, error |-> "None",
     current_url |-> None]

\* RealMCPIntegration._log_action
_log_action(g, action) ==
    [g EXCEPT !.action_history = Append(@, action)]

\* RealMCPIntegration._error_result (line 411): [g, result]
_error_result(g, message) ==
    [g |-> _log_action(g, "error"),
     result |-> ResultDict(FALSE, message, None)]

\* Python's `a in b` on strings
IsSubstring(a, b) ==
    \E i \in 0..(Len(b) - Len(a)) : SubSeq(b, i + 1, i + Len(a)) = a

\* the Playwright outcomes one authenticate_with_mcp call may meet: lo for
\* the launch, then one outcome per bridge call, the page the submit click
\* leads to, and the read of the page url
AuthOk ==
    [lo |-> "ok", nav |-> "ok", wait |-> "ok", user |-> "ok",
     pass |-> "ok", click |-> "ok", target |-> Stay, url |-> "ok"]

\* every Playwright call succeeds (the click then leads somewhere and the
\* url is read or not), or exactly one call fails: the launch or a step
AuthOutcomes ==
    {[AuthOk EXCEPT !.target = t, !.url = u] :
        t \in ClickTargets, u \in CallOutcomes}
    \cup {[AuthOk EXCEPT !.lo = lo] : lo \in LaunchOutcomes}
    \cup {[AuthOk EXCEPT !.nav = "raise"], [AuthOk EXCEPT !.wait = "raise"]}
    \cup {[AuthOk EXCEPT !.user = a] : a \in ActOutcomes}
    \cup {[AuthOk EXCEPT !.pass = a] : a \in ActOutcomes}
    \cup {[AuthOk EXCEPT !.click = a] : a \in ActOutcomes}

\* the credentials a caller passes: both, or one of them None
Credentials ==
    {[username |-> "v", password |-> "v"],
     [username |-> NoneStr, password |-> "v"],
     [username |-> "v", password |-> NoneStr]}

\* one bridge call of the workflow, as the workflow saw it
Called(method, r) == [method |-> method, success |-> r.res.success]

\* AuthFail that also drops the session: a failed attempt logs the user
\* out
AuthFail_DropsSession(g, b, message, cs) ==
    LET e == _error_result([g EXCEPT !.session_active = FALSE], message)
    IN [g |-> e.g, b |-> b, result |-> e.result, calls |-> cs]

\* the failure return of authenticate_with_mcp after the bridge calls cs
AuthFail(g, b, message, cs) ==
    LET e == _error_result(g, message)
    IN [g |-> e.g, b |-> b, result |-> e.result, calls |-> cs]

\* steps 6-7 of authenticate_with_mcp: after the settle sleep read the
\* url and compare it with the login url
AuthVerify(g, b, login_url, username, o, cs) ==
    LET u == get_current_url(b, o.url)
        current_url == IF u.res.success THEN u.res.url ELSE EmptyUrl
        cs1 == Append(cs, Called("get_current_url", u))
    IN IF IsSubstring(login_url, current_url)
       THEN AuthFail(g, u.b,
                     "Authentication failed - still on login page", cs1)
       ELSE [g |-> [g EXCEPT !.session_active = TRUE,
                             !.current_url = current_url,
                             !.authentication_state =
                                 [authenticated |-> TRUE,
                                  login_url |-> login_url,
                                  current_url |-> current_url]],
             b |-> u.b,
             result |-> ResultDict(TRUE, "None", current_url),
             calls |-> cs1]

\* AuthFillAndSubmit without the check of password_result: the click is
\* issued although the password could not be typed
AuthFillAndSubmit_NoPasswordCheck(g, b, login_url, username, password, o, cs) ==
    LET t1 == type_text(b, "username", username, o.user)
        c1 == Append(cs, Called("type_text", t1))
        g1 == _log_action(g, "type_username")
        t2 == type_text(t1.b, "password", password, o.pass)
        c2 == Append(c1, Called("type_text", t2))
        g2 == _log_action(g1, "type_password")
        k == click_element(t2.b, "submit", o.click, o.target)
        c3 == Append(c2, Called("click_element", k))
        g3 == _log_action(g2, "submit_login")
    IN IF ~t1.res.success
       THEN AuthFail(g, t1.b, "Username entry failed", c1)
       ELSE IF ~k.res.success
       THEN AuthFail(g2, k.b, "Form submission failed", c3)
       ELSE AuthVerify(g3, k.b, login_url, username, o, c3)

\* steps 3-5: type the username, type the password, click submit
AuthFillAndSubmit(g, b, login_url, username, password, o, cs) ==
    LET t1 == type_text(b, "username", username, o.user)
        c1 == Append(cs, Called("type_text", t1))
        g1 == _log_action(g, "type_username")
        t2 == type_text(t1.b, "password", password, o.pass)
        c2 == Append(c1, Called("type_text", t2))
        g2 == _log_action(g1, "type_password")
        k == click_element(t2.b, "submit", o.click, o.target)
        c3 == Append(c2, Called("click_element", k))
        g3 == _log_action(g2, "submit_login")
    IN IF ~t1.res.success
       THEN AuthFail(g, t1.b, "Username entry failed", c1)
       ELSE IF ~t2.res.success
       THEN AuthFail(g1, t2.b, "Password entry failed", c2)
       ELSE IF ~k.res.success
       THEN AuthFail(g2, k.b, "Form submission failed", c3)
       ELSE AuthVerify(g3, k.b, login_url, username, o, c3)

\* authenticate_with_mcp without the check of wait_result: the username
\* is typed although the username field never appeared
authenticate_with_mcp_NoWaitCheck(g, b, login_url, username, password, o) ==
    LET b0 == IF is_browser_active(b) THEN b
              ELSE launch_browser(initialize(b, o.lo), o.lo).b
        n == navigate(b0, login_url, o.lo, o.nav)
        c1 == <<Called("navigate", n)>>
        g1 == _log_action(g, "navigate")
        w == wait_for_element(n.b, "username", o.wait)
        c2 == Append(c1, Called("wait_for_element", w))
    IN IF ~n.res.success
       THEN AuthFail(g, n.b, "Navigation failed", c1)
       ELSE AuthFillAndSubmit(g1, w.b, login_url, username, password, o,
                              c2)

\* RealMCPIntegration.authenticate_with_mcp: [g, b, result, calls]
authenticate_with_mcp(g, b, login_url, username, password, o) ==
    LET b0 == IF is_browser_active(b) THEN b
              ELSE launch_browser(initialize(b, o.lo), o.lo).b
        n == navigate(b0, login_url, o.lo, o.nav)
        c1 == <<Called("navigate", n)>>
        g1 == _log_action(g, "navigate")
        w == wait_for_element(n.b, "username", o.wait)
        c2 == Append(c1, Called("wait_for_element", w))
    IN IF ~n.res.success
       THEN AuthFail(g, n.b, "Navigation failed", c1)
       ELSE IF ~w.res.success
       THEN AuthFail(g1, w.b, "Username field not found", c2)
       ELSE AuthFillAndSubmit(g1, w.b, login_url, username, password, o,
                              c2)

\* RealMCPIntegration.is_authenticated
is_authenticated(g) == g.session_active

\* RealMCPIntegration._mcp_navigate: sets current_url and logs; it makes
\* no bridge call
_mcp_navigate(g, url) ==
    _log_action([g EXCEPT !.current_url = url], "navigate")

\* RealMCPIntegration._mcp_get_content: logs and returns the content
_mcp_get_content(g) == _log_action(g, "extract")

\* extract_authenticated_content without its session check
extract_authenticated_content_NoGuard(g, target_url) ==
    [g |-> _mcp_get_content(_mcp_navigate(g, target_url)),
     result |-> ResultDict(TRUE, "None", target_url),
     calls |-> <<[method |-> "_mcp_navigate", success |-> TRUE],
                 [method |-> "_mcp_get_content", success |-> TRUE]>>]

\* RealMCPIntegration.extract_authenticated_content (line 349):
\* [g, result, calls]
extract_authenticated_content(g, target_url) ==
    IF ~g.session_active
    THEN [g |-> g,
          result |-> ResultDict(FALSE, "No active authentication session",
                                None),
          calls |-> <<>>]
    ELSE [g |-> _mcp_get_content(_mcp_navigate(g, target_url)),
          result |-> ResultDict(TRUE, "None", target_url),
          calls |-> <<[method |-> "_mcp_navigate", success |-> TRUE],
                      [method |-> "_mcp_get_content", success |-> TRUE]>>]

\* RealMCPIntegration.close_session (line 432): clears the flags, logs,
\* returns None; it does not touch the bridge
close_session(g) ==
    [g |-> _log_action([g EXCEPT !.session_active = FALSE,
                                 !.authentication_state =
                                     NoAuthenticationState], "close"),
     result |-> ReturnsNone]

(***************************************************************************)
(* CrawlEngine (src/src/crawl_engine.py).  crawler is "None", or refers    *)
(* to an AsyncWebCrawler that was "created" or has been "started".  An     *)
(* engine method yields [e, raised, result].                               *)
(***************************************************************************)
CrawlEngineInit == [crawler |-> "None"]

\* the dict an extraction returns; NoExtraction stands for no return value
\* (the method raised, or it returns None)
Extraction(url, success, error) ==
    [url |-> url, success |-> success, error |-> error]

NoExtraction == Extraction(None, FALSE, "None")

\* crawler.start() / crawler.stop() return or raise
StartOutcomes == {"ok", "raise"}

\* crawler.arun() returns a successful result, a failed one, or raises;
\* with an extraction strategy the extracted content may not be JSON
RunOutcomes == {"ok", "fail", "raise"}
StructuredOutcomes == RunOutcomes \cup {"bad_json"}

\* CrawlEngine.initialize: the crawler is assigned before it is started
EngineInitialize(e, so) ==
    IF so = "raise"
    THEN [e |-> [e EXCEPT !.crawler = "created"], raised |-> TRUE,
          result |-> NoExtraction]
    ELSE [e |-> [e EXCEPT !.crawler = "started"], raised |-> FALSE,
          result |-> NoExtraction]

\* CrawlEngine.extract_content (extract_with_ai has the same shape)
extract_content(e, url, so, ro) ==
    LET i == IF e.crawler = "None" THEN EngineInitialize(e, so)
             ELSE [e |-> e, raised |-> FALSE, result |-> NoExtraction]
    IN IF i.raised THEN i
       ELSE IF ro = "raise"
       THEN [e |-> i.e, raised |-> TRUE, result |-> NoExtraction]
       ELSE [e |-> i.e, raised |-> FALSE,
             result |-> Extraction(url, ro = "ok",
                                   IF ro = "ok" THEN "None"
                                   ELSE "error_message")]

\* CrawlEngine.extract_structured_data: json.loads of the extracted
\* content raises when it is not JSON
extract_structured_data(e, url, so, ro) ==
    IF ro = "bad_json"
    THEN LET i == extract_content(e, url, so, "raise")
         IN [e |-> i.e, raised |-> TRUE, result |-> NoExtraction]
    ELSE extract_content(e, url, so, ro)

\* html handed to extract_from_html: None, or a document with its anchors'
\* hrefs (a) and its images' srcs (img) in document order.  An href is
\* the sequence of the tokens of its text.
NoneHtml == [a |-> <<>>, img |-> <<>>, none |-> TRUE]
Html(a, img) == [a |-> a, img |-> img, none |-> FALSE]

\* what MCPWrapper.get_page_content returns: a document without anchors
SampleHtml == Html(<<>>, <<>>)

\* the tokens whose text begins with "http"
HttpPrefixed == {"http", "https", "httpdocs"}

\* href.startswith('http')
StartsWithHttp(href) == href # <<>> /\ Head(href) \in HttpPrefixed

\* the dict extract_from_html returns
HtmlExtraction(success, content, internal, external, images, error) ==
    [url |-> None, success |-> success, error |-> error,
     content |-> content, internal |-> internal, external |-> external,
     images |-> images]

\* extract_from_html without its try/except: a parsing error leaves the
\* call
extract_from_html_NoExcept(e, html_content, base_url, po) ==
    IF html_content.none \/ po # "ok"
    THEN [e |-> e, raised |-> TRUE, result |-> NoExtraction]
    ELSE [e |-> e, raised |-> FALSE,
          result |-> HtmlExtraction(
                         TRUE, "text",
                         SelectSeq(html_content.a,
                                   LAMBDA h : ~StartsWithHttp(h)),
                         SelectSeq(html_content.a, StartsWithHttp),
                         html_content.img, "None")]

\* CrawlEngine.extract_from_html: BeautifulSoup parsing inside try/except;
\* the import or the parser raises (po), and BeautifulSoup(None) raises.
\* An href goes to the external links when it starts with 'http' and to
\* the internal links otherwise; base_url is not read.
extract_from_html(e, html_content, base_url, po) ==
    IF html_content.none \/ po # "ok"
    THEN [e |-> e, raised |-> FALSE,
          result |-> HtmlExtraction(FALSE, "", <<>>, <<>>, <<>>, ExcText)]
    ELSE [e |-> e, raised |-> FALSE,
          result |-> HtmlExtraction(
                         TRUE, "text",
                         SelectSeq(html_content.a,
                                   LAMBDA h : ~StartsWithHttp(h)),
                         SelectSeq(html_content.a, StartsWithHttp),
                         html_content.img, "None")]

\* CrawlEngine.close: stop the crawler, drop it, return None
EngineClose(e, so) ==
    IF e.crawler = "None"
    THEN [e |-> e, raised |-> FALSE, result |-> NoExtraction]
    ELSE IF so = "raise"
    THEN [e |-> e, raised |-> TRUE, result |-> NoExtraction]
    ELSE [e |-> [e EXCEPT !.crawler = "None"], raised |-> FALSE,
          result |-> NoExtraction]

(***************************************************************************)
(* CrawlOrchestrator (src/src/orchestrator.py).  A workflow takes the      *)
(* session s, the engine e and the results list R and yields               *)
(* [s, e, R, raised, value, steps]: value is the list of result entries    *)
(* it returned, steps the dispatches and extractions it issued, in order,  *)
(* each with whether it succeeded.                                         *)
(***************************************************************************)
\* execute_action called with no keyword argument
EmptyKw ==
    [url |-> None, selector |-> NoneStr, text |-> NoneStr,
     username |-> NoneStr, password |-> NoneStr]

\* one entry of a workflow's result: the dict of a workflow, or the dict
\* of one extraction
ResultEntry(kind, url, extraction) ==
    [kind |-> kind, url |-> url, extraction |-> extraction]

\* a dispatch as a step: it succeeded unless it raised or returned an
\* error status
DispatchStep(action, d) ==
    [step |-> action, ok |-> ~d.raised /\ d.result.status = "success"]

\* an extraction as a step
ExtractStep(x) == [step |-> "extract", ok |-> ~x.raised /\ x.result.success]

WorkflowRaise(s, e, R, steps) ==
    [s |-> s, e |-> e, R |-> R, raised |-> TRUE, value |-> <<>>,
     steps |-> steps]

\* WorkflowReturn that assigns self.results = [result]: the entries of
\* earlier workflows are dropped
WorkflowReturn_Overwrites(s, e, R, entry, steps) ==
    [s |-> s, e |-> e, R |-> <<entry>>, raised |-> FALSE,
     value |-> <<entry>>, steps |-> steps]

\* self.results.append(result); return result
WorkflowReturn(s, e, R, entry, steps) ==
    [s |-> s, e |-> e, R |-> Append(R, entry), raised |-> FALSE,
     value |-> <<entry>>, steps |-> steps]

\* CrawlOrchestrator.navigate_and_extract
navigate_and_extract(s, e, R, url, has_schema, so, ro) ==
    LET nav == execute_action(s, "navigate", [EmptyKw EXCEPT !.url = url])
        x == IF has_schema THEN extract_structured_data(e, url, so, ro)
             ELSE extract_content(e, url, so, ro)
        steps == <<DispatchStep("navigate", nav), ExtractStep(x)>>
    IN IF x.raised THEN WorkflowRaise(nav.session, x.e, R, steps)
       ELSE WorkflowReturn(nav.session, x.e, R,
                           ResultEntry("navigate_and_extract", url,
                                       x.result), steps)

\* CrawlOrchestrator.login_and_extract (extract_with_ai and
\* extract_content differ in the strategy passed to arun only)
login_and_extract(s, e, R, login_url, target_url, username, password, so, ro) ==
    LET n1 == execute_action(s, "navigate",
                             [EmptyKw EXCEPT !.url = login_url])
        a == execute_action(n1.session, "authenticate",
                            [EmptyKw EXCEPT !.username = username,
                                            !.password = password])
        n2 == execute_action(a.session, "navigate",
                             [EmptyKw EXCEPT !.url = target_url])
        x == extract_content(e, target_url, so, ro)
        s2 == <<DispatchStep("navigate", n1),
                DispatchStep("authenticate", a)>>
        s4 == s2 \o <<DispatchStep("navigate", n2), ExtractStep(x)>>
    IN IF a.raised THEN WorkflowRaise(a.session, e, R, s2)
       ELSE IF x.raised THEN WorkflowRaise(n2.session, x.e, R, s4)
       ELSE WorkflowReturn(n2.session, x.e, R,
                           ResultEntry("login_and_extract", target_url,
                                       x.result), s4)

\* one action dict of interactive_crawl: "type", the "params" dict when
\* the key is present, and the "extract_after" flag
ActionDict(type, has_params, params, extract_after) ==
    [type |-> type, has_params |-> has_params, params |-> params,
     extract_after |-> extract_after]

\* the for loop of interactive_crawl over the remaining actions; acc is
\* the local results list and st the steps issued so far.  The url is
\* updated after the extraction; action["params"] raises KeyError when a
\* navigate action has no params.
RECURSIVE InteractiveLoop(_, _, _, _, _, _, _)
InteractiveLoop(s, e, actions, current_url, po, acc, st) ==
    IF actions = <<>>
    THEN [s |-> s, e |-> e, raised |-> FALSE, value |-> acc, steps |-> st]
    ELSE LET action == Head(actions)
             d == execute_action(s, action.type,
                                 IF action.has_params THEN action.params
                                 ELSE EmptyKw)
             st1 == Append(st, DispatchStep(action.type, d))
             h == execute_action(d.session, "get_html", EmptyKw)
             x == extract_from_html(e, SampleHtml, current_url, po)
             extracting == action.extract_after
             s2 == IF extracting THEN h.session ELSE d.session
             acc2 == IF extracting
                     THEN Append(acc, ResultEntry(action.type, current_url,
                                                  x.result))
                     ELSE acc
             st2 == IF extracting
                    THEN st1 \o <<DispatchStep("get_html", h),
                                  ExtractStep(x)>>
                    ELSE st1
             url2 == IF action.type = "navigate"
                        /\ action.params.url # None
                     THEN action.params.url
                     ELSE current_url
         IN IF d.raised
            THEN [s |-> d.session, e |-> e, raised |-> TRUE,
                  value |-> <<>>, steps |-> st1]
            ELSE IF action.type = "navigate" /\ ~action.has_params
            THEN [s |-> s2, e |-> e, raised |-> TRUE, value |-> <<>>,
                  steps |-> st2]
            ELSE InteractiveLoop(s2, e, Tail(actions), url2, po, acc2,
                                 st2)

\* CrawlOrchestrator.interactive_crawl
interactive_crawl(s, e, R, start_url, actions, po) ==
    LET n == execute_action(s, "navigate",
                            [EmptyKw EXCEPT !.url = start_url])
        l == InteractiveLoop(n.session, e, actions, start_url, po, <<>>,
                             <<DispatchStep("navigate", n)>>)
    IN IF l.raised THEN WorkflowRaise(l.s, l.e, R, l.steps)
       ELSE [s |-> l.s, e |-> l.e, R |-> R \o l.value, raised |-> FALSE,
             value |-> l.value, steps |-> l.steps]

\* the extract_content tasks of parallel_extract: the first task to run
\* initialises the engine when it has no crawler; task i meets ros[i]
ParallelTask(e, urls, i, so, ros) ==
    IF i = 1 THEN extract_content(e, urls[i], so, ros[i])
    ELSE extract_content(
             [e EXCEPT !.crawler = IF @ = "None" THEN "created" ELSE @],
             urls[i], "ok", ros[i])

\* CrawlOrchestrator.parallel_extract: asyncio.gather without
\* return_exceptions raises as soon as a task raises
parallel_extract(s, e, R, urls, so, ros) ==
    LET n == Len(urls)
        task(i) == ParallelTask(e, urls, i, so, ros)
        e1 == IF n = 0 THEN e ELSE task(1).e
        steps == [i \in 1..n |-> ExtractStep(task(i))]
        value == [i \in 1..n |->
                     ResultEntry("extraction", urls[i], task(i).result)]
    IN IF \E i \in 1..n : task(i).raised
       THEN WorkflowRaise(s, e1, R, steps)
       ELSE [s |-> s, e |-> e1, R |-> R \o value, raised |-> FALSE,
             value |-> value, steps |-> steps]

\* The tasks asyncio.gather makes of the extract_content coroutines of one
\* parallel_extract.  A task is "ready" (created, not yet run), suspended
\* in "start" (initialize awaits crawler.start()) or in "arun", "done" or
\* "raised"; at is the state of the crawler when the task called arun.
GatherTask(url) ==
    [pc |-> "ready", url |-> url, at |-> "None", result |-> NoExtraction]

\* no gather yet.  fresh: the engine had no crawler when parallel_extract
\* was called; created, started: AsyncWebCrawler() constructions and
\* completed start() calls since then; round: parallel_extract calls made
GatherInit ==
    [tasks |-> <<>>, fresh |-> FALSE, created |-> 0, started |-> 0,
     round |-> 0]

\* the first step of an extract_content task, up to its first suspension:
\* `if not self.crawler` sends it into initialize, which assigns
\* self.crawler and then awaits start(); otherwise it calls arun at once
TaskFirstStep(e, t) ==
    IF e.crawler = "None"
    THEN [e |-> [e EXCEPT !.crawler = "created"],
          t |-> [t EXCEPT !.pc = "start"], created |-> 1]
    ELSE [e |-> e, t |-> [t EXCEPT !.pc = "arun", !.at = e.crawler],
          created |-> 0]

\* crawler.start() returns to initialize, initialize returns to
\* extract_content, and arun is called; or start() raises
TaskAfterStart(e, t, so) ==
    IF so = "raise"
    THEN [e |-> e, t |-> [t EXCEPT !.pc = "raised"], started |-> 0]
    ELSE [e |-> [e EXCEPT !.crawler = "started"],
          t |-> [t EXCEPT !.pc = "arun", !.at = "started"], started |-> 1]

\* crawler.arun() returns or raises, and extract_content builds its dict
TaskAfterArun(t, ro) ==
    IF ro = "raise" THEN [t EXCEPT !.pc = "raised"]
    ELSE [t EXCEPT !.pc = "done",
                   !.result = Extraction(t.url, ro = "ok",
                                         IF ro = "ok" THEN "None"
                                         ELSE "error_message")]

\* the scroll loop of dynamic_content_extract: range(scroll_times)
RECURSIVE ScrollLoop(_, _, _)
ScrollLoop(s, scroll_times, st) ==
    IF scroll_times <= 0 THEN [s |-> s, steps |-> st]
    ELSE LET v == execute_action(s, "evaluate", EmptyKw)
         IN ScrollLoop(v.session, scroll_times - 1,
                       Append(st, DispatchStep("evaluate", v)))

\* dynamic_content_extract with its loop over range(scroll_times + 1):
\* one scroll more than asked for
dynamic_content_extract_ExtraScroll(s, e, R, url, wait_selector, scroll_times, so, ro) ==
    LET n == execute_action(s, "navigate", [EmptyKw EXCEPT !.url = url])
        w == execute_action(n.session, "wait",
                            [EmptyKw EXCEPT !.selector = wait_selector])
        l == ScrollLoop(w.session, scroll_times + 1,
                        <<DispatchStep("navigate", n),
                          DispatchStep("wait", w)>>)
        x == extract_content(e, url, so, ro)
        steps == Append(l.steps, ExtractStep(x))
    IN IF x.raised THEN WorkflowRaise(l.s, x.e, R, steps)
       ELSE WorkflowReturn(l.s, x.e, R,
                           ResultEntry("dynamic_content_extract", url,
                                       x.result), steps)

\* CrawlOrchestrator.dynamic_content_extract
dynamic_content_extract(s, e, R, url, wait_selector, scroll_times, so, ro) ==
    LET n == execute_action(s, "navigate", [EmptyKw EXCEPT !.url = url])
        w == execute_action(n.session, "wait",
                            [EmptyKw EXCEPT !.selector = wait_selector])
        l == ScrollLoop(w.session, scroll_times,
                        <<DispatchStep("navigate", n),
                          DispatchStep("wait", w)>>)
        x == extract_content(e, url, so, ro)
        steps == Append(l.steps, ExtractStep(x))
    IN IF x.raised THEN WorkflowRaise(l.s, x.e, R, steps)
       ELSE WorkflowReturn(l.s, x.e, R,
                           ResultEntry("dynamic_content_extract", url,
                                       x.result), steps)

\* the field loop of form_submit_extract, in the dict's iteration order;
\* a dispatch that raises ends it
RECURSIVE FillLoop(_, _, _)
FillLoop(s, fields, st) ==
    IF fields = <<>> THEN [s |-> s, raised |-> FALSE, steps |-> st]
    ELSE LET t == execute_action(s, "type",
                                 [EmptyKw EXCEPT
                                     !.selector = Head(fields).selector,
                                     !.text = Head(fields).value])
             st1 == Append(st, DispatchStep("type", t))
         IN IF t.raised
            THEN [s |-> t.session, raised |-> TRUE, steps |-> st1]
            ELSE FillLoop(t.session, Tail(fields), st1)

\* Python's `a or b` on an optional string
Or(a, b) == IF a = None \/ a = EmptyUrl THEN b ELSE a

\* CrawlOrchestrator.form_submit_extract
form_submit_extract(s, e, R, url, form_data, so, ro) ==
    LET n == execute_action(s, "navigate", [EmptyKw EXCEPT !.url = url])
        f == FillLoop(n.session, form_data,
                      <<DispatchStep("navigate", n)>>)
        c == execute_action(f.s, "click",
                            [EmptyKw EXCEPT !.selector = "submit"])
        current_url == Or(SessionGetCurrentUrl(c.session), url)
        x == extract_content(e, current_url, so, ro)
        steps == f.steps \o <<DispatchStep("click", c), ExtractStep(x)>>
    IN IF f.raised THEN WorkflowRaise(f.s, e, R, f.steps)
       ELSE IF x.raised THEN WorkflowRaise(c.session, x.e, R, steps)
       ELSE WorkflowReturn(c.session, x.e, R,
                           ResultEntry("form_submit_extract", current_url,
                                       x.result), steps)

(***************************************************************************)
(* ThreadSafeCrawler (src/src/thread_safe_crawler.py).  Loops, crawlers    *)
(* and loop threads are numbered in the order they are made, 0 standing    *)
(* for None: the k-th thread started makes loop k and crawler k.  Caller   *)
(* threads enter through initialize or _run_in_loop and may be pre-empted  *)
(* between any two statements.                                             *)
(***************************************************************************)
\* a caller thread: idle, or at a statement of the method it entered
CallerInit == [pc |-> "idle", via |-> ""]

\* ThreadSafeCrawler.__init__, with no thread inside yet.  loops[k] is the
\* position of the k-th loop thread in run_async_loop; submitted lists
\* the coroutines handed to run_coroutine_threadsafe, each with the loop
\* it went to and the crawler self.crawler referred to
ThreadSafeCrawlerInit ==
    [crawler |-> 0, loop |-> 0, thread |-> 0, _initialized |-> FALSE,
     callers |-> [c \in 1..MaxCallers |-> CallerInit],
     loops |-> <<>>, submitted |-> <<>>]

\* where a caller goes when initialize returns to it
AfterInitialize(via) == IF via = "_run_in_loop" THEN "submit" ELSE "done"

\* a thread calls initialize() or _run_in_loop(coro)
CallerEnter(t, c, via) ==
    [t EXCEPT !.callers[c] =
        [pc |-> IF via = "_run_in_loop" THEN "run_check" ELSE "init_check",
         via |-> via]]

\* _run_in_loop: `if not self._initialized: self.initialize()`
CallerRunCheck(t, c) ==
    [t EXCEPT !.callers[c].pc =
        IF t._initialized THEN "submit" ELSE "init_check"]

\* initialize: `if self._initialized: return`
CallerInitCheck(t, c) ==
    [t EXCEPT !.callers[c].pc =
        IF t._initialized THEN AfterInitialize(t.callers[c].via)
        ELSE "spawn"]

\* initialize: self.thread = threading.Thread(...); self.thread.start()
CallerSpawn(t, c) ==
    [t EXCEPT !.thread = Len(t.loops) + 1,
              !.loops = Append(@, "new_loop"),
              !.callers[c].pc = "poll"]

\* initialize: the wait loop ends because _initialized is set, or because
\* max_wait has passed and RuntimeError is raised
CallerPoll(t, c, timeout) ==
    [t EXCEPT !.callers[c].pc =
        IF t._initialized THEN AfterInitialize(t.callers[c].via)
        ELSE IF timeout THEN "raised"
        ELSE "poll"]

\* _run_in_loop: asyncio.run_coroutine_threadsafe(coro, self.loop)
CallerSubmit(t, c) ==
    [t EXCEPT !.submitted = Append(@, [loop |-> t.loop,
                                       crawler |-> t.crawler]),
              !.callers[c].pc = "done"]

\* run_async_loop: self.loop = asyncio.new_event_loop()
LoopNew(t, k) == [t EXCEPT !.loop = k, !.loops[k] = "create"]

\* _async_initialize: self.crawler = AsyncWebCrawler()
LoopCreate(t, k) == [t EXCEPT !.crawler = k, !.loops[k] = "start"]

\* _async_initialize: crawler.start() returns and _initialized is set, or
\* it raises and the thread ends
LoopStart(t, k, so) ==
    IF so = "raise" THEN [t EXCEPT !.loops[k] = "dead"]
    ELSE [t EXCEPT !._initialized = TRUE, !.loops[k] = "run_forever"]

(***************************************************************************)
(* State                                                                   *)
(***************************************************************************)
VARIABLES
    mcp_session,     \* the MCPSession object: wrapper state and history
    dispatched,      \* number of execute_action calls made on mcp_session
    outcome,         \* last direct execute_action: returned/raised, result
    mcp_bridge,      \* the MCPBridge singleton of get_mcp_bridge()
    bridge_calls,    \* number of calls made on mcp_bridge
    bridge_outcome,  \* last bridge call: method, MCPResult, Playwright calls
    navigated,       \* a navigate succeeded and no close_browser ran since
    mcp_integration, \* the RealMCPIntegration object
    auth_calls,      \* number of calls made on mcp_integration
    auth_outcome,    \* last integration call: method, result, bridge calls
    crawl_engine,    \* the CrawlEngine object
    engine_outcome,  \* last engine call: method, returned/raised, result
    results,         \* CrawlOrchestrator.results
    orch_calls,      \* number of workflows run on the orchestrator
    orch_outcome,    \* last workflow: returned/raised, value, steps
    sim_bridge,      \* the simulated MCPBridge singleton
    sim_calls,       \* number of calls made on sim_bridge
    sim_outcome,     \* last simulated call: method, returned/raised, result
    gather,          \* the extract_content tasks of the asyncio.gather in flight
    flight,          \* the execute_action calls suspended on mcp_session
    tsc              \* a ThreadSafeCrawler and the threads working on it

vars == <<mcp_session, dispatched, outcome, mcp_bridge, bridge_calls,
          bridge_outcome, navigated, mcp_integration, auth_calls,
          auth_outcome, crawl_engine, engine_outcome, results, orch_calls,
          orch_outcome, sim_bridge, sim_calls, sim_outcome, gather, flight,
          tsc>>

sessionVars == <<mcp_session, dispatched, outcome>>
bridgeVars == <<mcp_bridge, bridge_calls, bridge_outcome, navigated>>
integrationVars == <<mcp_integration, auth_calls, auth_outcome>>
engineVars == <<crawl_engine, engine_outcome>>
orchVars == <<results, orch_calls, orch_outcome>>
simVars == <<sim_bridge, sim_calls, sim_outcome>>
concVars == <<gather, flight, tsc>>

NoOutcome == [op |-> "", name |-> "", kind |-> "none",
              result |-> NoResult, ops |-> <<>>, kw |-> EmptyKw,
              before |-> MCPSessionInit]

NoBridgeOutcome == [op |-> "", name |-> "",
                    res |-> MCPResult(FALSE, "None", None, "None"),
                    backend |-> <<>>, caught |-> FALSE,
                    before |-> MCPBridgeInit]

NoAuthOutcome ==
    [op |-> "", result |-> ReturnsNone, calls |-> <<>>,
     login_url |-> None, before |-> RealMCPIntegrationInit,
     bridge_before |-> MCPBridgeInit, bridge_after |-> MCPBridgeInit]

NoEngineOutcome ==
    [op |-> "", kind |-> "none", result |-> NoExtraction,
     html_content |-> NoneHtml, base_url |-> None, po |-> "ok"]

\* the arguments of a workflow besides its urls
NoArgs == [actions |-> <<>>, scroll_times |-> 0, form_data |-> <<>>]

NoOrchOutcome ==
    [op |-> "", kind |-> "none", value |-> <<>>, steps |-> <<>>,
     urls |-> <<>>, before |-> <<>>, args |-> NoArgs,
     session_before |-> MCPSessionInit]

NoSimOutcome ==
    [op |-> "", name |-> "", kind |-> "none",
     res |-> MCPResult(FALSE, "None", None, "None")]

Init ==
    /\ mcp_session = MCPSessionInit
    /\ dispatched = 0
    /\ outcome = NoOutcome
    /\ mcp_bridge = MCPBridgeInit
    /\ bridge_calls = 0
    /\ bridge_outcome = NoBridgeOutcome
    /\ navigated = FALSE
    /\ mcp_integration = RealMCPIntegrationInit
    /\ auth_calls = 0
    /\ auth_outcome = NoAuthOutcome
    /\ crawl_engine = CrawlEngineInit
    /\ engine_outcome = NoEngineOutcome
    /\ results = <<>>
    /\ orch_calls = 0
    /\ orch_outcome = NoOrchOutcome
    /\ sim_bridge = SimBridgeInit
    /\ sim_calls = 0
    /\ sim_outcome = NoSimOutcome
    /\ gather = GatherInit
    /\ flight = FlightInit
    /\ tsc = ThreadSafeCrawlerInit

(***************************************************************************)
(* Callers of MCPSession                                                   *)
(***************************************************************************)
SessionExecuteAction ==
    \E action \in ActionNames :
    \E kw \in KwargsFor(action) :
        /\ dispatched + bridge_calls < MaxCalls
        /\ LET r == execute_action(mcp_session, action, kw)
           IN /\ mcp_session' = r.session
              /\ outcome' = [op |-> "execute_action", name |-> action,
                             kind |-> IF r.raised THEN "raised"
                                      ELSE "returned",
                             result |-> r.result, ops |-> r.ops,
                             kw |-> kw, before |-> mcp_session]
        /\ dispatched' = dispatched + 1
        /\ UNCHANGED <<concVars, bridgeVars, integrationVars, engineVars, orchVars, simVars>>

SessionNext == SessionExecuteAction

SpecSession == Init /\ [][SessionNext]_vars

(***************************************************************************)
(* Callers of MCPBridge: one action per public method.  r is what the      *)
(* method yields from the current bridge state.                            *)
(***************************************************************************)
BridgeCall(op, name, r) ==
    /\ dispatched + bridge_calls < MaxCalls
    /\ mcp_bridge' = r.b
    /\ bridge_calls' = bridge_calls + 1
    /\ bridge_outcome' = [op |-> op, name |-> name, res |-> r.res,
                          backend |-> r.backend, caught |-> r.caught,
                          before |-> mcp_bridge]
    /\ navigated' = IF op = "close_browser" THEN FALSE
                    ELSE IF op = "navigate" /\ r.res.success THEN TRUE
                    ELSE navigated
    /\ UNCHANGED <<concVars, sessionVars, integrationVars, engineVars, orchVars, simVars>>

BridgeLaunchBrowser ==
    \E lo \in LaunchOutcomes :
        LET l == launch_browser(mcp_bridge, lo)
        IN BridgeCall("launch_browser", "",
                      BridgeRet(l.b, MCPResult(l.ok, "None", None, "None"),
                                l.backend))

BridgeNavigate ==
    \E url \in UrlArgs, lo \in LaunchOutcomes, o \in CallOutcomes :
        BridgeCall("navigate", "", navigate(mcp_bridge, url, lo, o))

BridgeTypeText ==
    \E text \in StrArgs, o \in ActOutcomes :
        BridgeCall("type_text", "", type_text(mcp_bridge, "v", text, o))

BridgeClickElement ==
    \E o \in ActOutcomes, target \in ClickTargets :
        BridgeCall("click_element", "",
                   click_element(mcp_bridge, "v", o, target))

BridgeWaitForElement ==
    \E o \in CallOutcomes :
        BridgeCall("wait_for_element", "",
                   wait_for_element(mcp_bridge, "v", o))

BridgeWaitForNavigation ==
    \E o \in CallOutcomes :
        BridgeCall("wait_for_navigation", "",
                   wait_for_navigation(mcp_bridge, o))

BridgeGetPageContent ==
    \E o \in CallOutcomes :
        BridgeCall("get_page_content", "", get_page_content(mcp_bridge, o))

BridgeTakeScreenshot ==
    \E o \in CallOutcomes :
        BridgeCall("take_screenshot", "", take_screenshot(mcp_bridge, o))

BridgeEvaluateJavascript ==
    \E o \in CallOutcomes :
        BridgeCall("evaluate_javascript", "",
                   evaluate_javascript(mcp_bridge, o))

BridgeGetSnapshot ==
    \E o \in CallOutcomes :
        BridgeCall("get_snapshot", "", get_snapshot(mcp_bridge, o))

BridgeGetCurrentUrl ==
    \E o \in CallOutcomes :
        BridgeCall("get_current_url", "", get_current_url(mcp_bridge, o))

BridgeCloseBrowser ==
    \E co \in CloseOutcomes :
        BridgeCall("close_browser", "", close_browser(mcp_bridge, co))

\* the method a function name is mapped to, for the bookkeeping of
\* navigated
MappedMethod(function_name) ==
    CASE function_name = "browser_navigate" -> "navigate"
      [] function_name = "browser_close" -> "close_browser"
      [] OTHER -> "_call_mcp_function"

BridgeCallMcpFunction ==
    \E function_name \in CalledFunctions :
    \E params \in ParamsFor(function_name),
       o \in OutcomesFor(function_name) :
        LET r == _call_mcp_function(mcp_bridge, function_name, params, o)
        IN /\ dispatched + bridge_calls < MaxCalls
           /\ mcp_bridge' = r.b
           /\ bridge_calls' = bridge_calls + 1
           /\ bridge_outcome' = [op |-> "_call_mcp_function",
                                 name |-> function_name, res |-> r.res,
                                 backend |-> r.backend,
                                 caught |-> r.caught,
                                 before |-> mcp_bridge]
           /\ navigated' =
                 IF MappedMethod(function_name) = "close_browser"
                 THEN FALSE
                 ELSE IF MappedMethod(function_name) = "navigate"
                         /\ r.res.success
                 THEN TRUE
                 ELSE navigated
           /\ UNCHANGED <<concVars, sessionVars, integrationVars, engineVars, orchVars, simVars>>

BridgeNext ==
    \/ BridgeLaunchBrowser
    \/ BridgeNavigate
    \/ BridgeTypeText
    \/ BridgeClickElement
    \/ BridgeWaitForElement
    \/ BridgeWaitForNavigation
    \/ BridgeGetPageContent
    \/ BridgeTakeScreenshot
    \/ BridgeEvaluateJavascript
    \/ BridgeGetSnapshot
    \/ BridgeGetCurrentUrl
    \/ BridgeCloseBrowser
    \/ BridgeCallMcpFunction

SpecBridge == Init /\ [][BridgeNext]_vars

\* both dispatchers: MCPSession.execute_action and
\* MCPBridge._call_mcp_function
DispatchNext == SessionExecuteAction \/ BridgeCallMcpFunction

SpecDispatch == Init /\ [][DispatchNext]_vars

(***************************************************************************)
(* Callers of RealMCPIntegration.  The integration drives the shared       *)
(* bridge, so an authentication moves mcp_bridge as well.                  *)
(***************************************************************************)
IntegAuthenticate ==
    /\ auth_calls < MaxAuthCalls
    /\ \E login_url \in {LoginUrl}, c \in Credentials,
          o \in AuthOutcomes :
          LET r == authenticate_with_mcp(mcp_integration, mcp_bridge,
                                         login_url, c.username,
                                         c.password, o)
          IN /\ mcp_integration' = r.g
             /\ mcp_bridge' = r.b
             /\ auth_outcome' = [op |-> "authenticate_with_mcp",
                                 result |-> r.result, calls |-> r.calls,
                                 login_url |-> login_url,
                                 before |-> mcp_integration,
                                 bridge_before |-> mcp_bridge,
                                 bridge_after |-> r.b]
             /\ navigated' = (navigated \/ r.calls[1].success)
    /\ auth_calls' = auth_calls + 1
    /\ UNCHANGED <<concVars, sessionVars, bridge_calls, bridge_outcome, engineVars,
                   orchVars, simVars>>

IntegCloseSession ==
    /\ auth_calls < MaxAuthCalls
    /\ LET r == close_session(mcp_integration)
       IN /\ mcp_integration' = r.g
          /\ auth_outcome' = [op |-> "close_session", result |-> r.result,
                              calls |-> <<>>, login_url |-> None,
                              before |-> mcp_integration,
                              bridge_before |-> mcp_bridge,
                              bridge_after |-> mcp_bridge]
    /\ auth_calls' = auth_calls + 1
    /\ UNCHANGED <<concVars, sessionVars, bridgeVars, engineVars, orchVars, simVars>>

IntegExtractAuthenticatedContent ==
    /\ auth_calls < MaxAuthCalls
    /\ \E target_url \in {HomeUrl, LoginUrl} :
          LET r == extract_authenticated_content(mcp_integration,
                                                 target_url)
          IN /\ mcp_integration' = r.g
             /\ auth_outcome' = [op |-> "extract_authenticated_content",
                                 result |-> r.result, calls |-> r.calls,
                                 login_url |-> None,
                                 before |-> mcp_integration,
                                 bridge_before |-> mcp_bridge,
                                 bridge_after |-> mcp_bridge]
    /\ auth_calls' = auth_calls + 1
    /\ UNCHANGED <<concVars, sessionVars, bridgeVars, engineVars, orchVars,
                   simVars>>

\* the integration, and the owner of the shared bridge closing the browser
AuthNext ==
    \/ IntegAuthenticate
    \/ IntegCloseSession
    \/ IntegExtractAuthenticatedContent
    \/ BridgeCloseBrowser

SpecAuth == Init /\ [][AuthNext]_vars

(***************************************************************************)
(* Callers of CrawlEngine                                                  *)
(***************************************************************************)
EngineCallWith(op, r, html_content, base_url, po) ==
    /\ crawl_engine' = r.e
    /\ engine_outcome' = [op |-> op,
                          kind |-> IF r.raised THEN "raised"
                                   ELSE "returned",
                          result |-> r.result,
                          html_content |-> html_content,
                          base_url |-> base_url, po |-> po]
    /\ UNCHANGED <<concVars, sessionVars, bridgeVars, integrationVars, orchVars,
                   simVars>>

EngineCall(op, r) == EngineCallWith(op, r, NoneHtml, None, "ok")

CrawlEngineInitialize ==
    \E so \in StartOutcomes :
        EngineCall("initialize", EngineInitialize(crawl_engine, so))

CrawlEngineClose ==
    \E so \in StartOutcomes :
        EngineCall("close", EngineClose(crawl_engine, so))

\* hrefs a document may carry: relative ones, absolute ones of the base
\* url's origin and of other origins, one of a scheme other than http,
\* and a relative one whose text begins with "http"
BaseOrigin == <<"http", "://", "base.com">>
Hrefs ==
    {<<"/", "x">>, <<"x.html">>, <<"httpdocs", "/", "x">>,
     <<"http", "://", "ext.com">>,
     <<"http", "://", "base.com", "/", "x">>, <<"ftp", "://", "ext.com">>}

\* the documents handed to extract_from_html, and None
HtmlArgs ==
    {Html(a, img) : a \in UNION {[1..n -> Hrefs] : n \in 0..MaxLinks},
                    img \in {<<>>, <<"a.png">>}}
    \cup {NoneHtml}

CrawlEngineExtractFromHtml ==
    \E html_content \in HtmlArgs, base_url \in {None, BaseOrigin},
       po \in CallOutcomes :
        EngineCallWith("extract_from_html",
                       extract_from_html(crawl_engine, html_content,
                                         base_url, po),
                       html_content, base_url, po)

HtmlNext == CrawlEngineExtractFromHtml

SpecHtml == Init /\ [][HtmlNext]_vars

\* the three close operations and what brings their objects to life
CloseNext ==
    \/ BridgeLaunchBrowser
    \/ BridgeCloseBrowser
    \/ IntegCloseSession
    \/ CrawlEngineInitialize
    \/ CrawlEngineClose

SpecClose == Init /\ [][CloseNext]_vars

(***************************************************************************)
(* Callers of CrawlOrchestrator: one action per workflow.  initialize and  *)
(* close of the orchestrator are those of its engine.                      *)
(***************************************************************************)
\* crawler.start() is reached only when the engine has no crawler
StartFor(e) == IF e.crawler = "None" THEN StartOutcomes ELSE {"ok"}

\* the number of dispatches among the steps of a workflow
RECURSIVE Dispatches(_)
Dispatches(steps) ==
    IF steps = <<>> THEN 0
    ELSE (IF Head(steps).step = "extract" THEN 0 ELSE 1)
         + Dispatches(Tail(steps))

WorkflowWith(op, urls, args, r) ==
    /\ mcp_session' = r.s
    /\ crawl_engine' = r.e
    /\ results' = r.R
    /\ orch_calls' = orch_calls + 1
    /\ orch_outcome' = [op |-> op,
                        kind |-> IF r.raised THEN "raised" ELSE "returned",
                        value |-> r.value, steps |-> r.steps,
                        urls |-> urls, before |-> results,
                        args |-> args, session_before |-> mcp_session]
    /\ dispatched' = dispatched + Dispatches(r.steps)
    /\ UNCHANGED <<concVars, outcome, engine_outcome, bridgeVars, integrationVars,
                   simVars>>

Workflow(op, urls, r) == WorkflowWith(op, urls, NoArgs, r)

OrchNavigateAndExtract ==
    /\ orch_calls < MaxWorkflows
    /\ \E has_schema \in BOOLEAN, so \in StartFor(crawl_engine) :
       \E ro \in IF has_schema THEN StructuredOutcomes ELSE RunOutcomes :
          Workflow("navigate_and_extract", <<HomeUrl>>,
                   navigate_and_extract(mcp_session, crawl_engine, results,
                                        HomeUrl, has_schema, so, ro))

OrchLoginAndExtract ==
    /\ orch_calls < MaxWorkflows
    /\ \E c \in Credentials, so \in StartFor(crawl_engine),
          ro \in RunOutcomes :
          Workflow("login_and_extract", <<LoginUrl, HomeUrl>>,
                   login_and_extract(mcp_session, crawl_engine, results,
                                     LoginUrl, HomeUrl, c.username,
                                     c.password, so, ro))

\* the action dicts handed to interactive_crawl
ClickAction(extract_after) ==
    ActionDict("click", TRUE, [EmptyKw EXCEPT !.selector = "v"],
               extract_after)

NavigateAction(url, extract_after) ==
    ActionDict("navigate", TRUE, [EmptyKw EXCEPT !.url = url],
               extract_after)

\* action lists: none, plain ones, one with an unknown action type, one
\* whose type action lacks its text, one whose navigate lacks its params
ActionLists ==
    {<<>>,
     <<ClickAction(TRUE)>>,
     <<NavigateAction(LoginUrl, TRUE), ClickAction(FALSE),
       ClickAction(TRUE)>>,
     <<ClickAction(FALSE), NavigateAction(LoginUrl, FALSE),
       ClickAction(TRUE)>>,
     <<ActionDict("scroll", FALSE, EmptyKw, FALSE), ClickAction(TRUE)>>,
     <<ClickAction(TRUE), ActionDict("type", TRUE,
                                     [EmptyKw EXCEPT !.selector = "v"],
                                     FALSE), ClickAction(FALSE)>>,
     <<ActionDict("navigate", FALSE, EmptyKw, TRUE), ClickAction(TRUE)>>}

OrchInteractiveCrawl ==
    /\ orch_calls < MaxWorkflows
    /\ \E actions \in ActionLists, po \in CallOutcomes :
          WorkflowWith("interactive_crawl", <<HomeUrl>>,
                       [NoArgs EXCEPT !.actions = actions],
                       interactive_crawl(mcp_session, crawl_engine, results,
                                         HomeUrl, actions, po))

\* the url lists handed to parallel_extract
UrlLists == {<<>>, <<HomeUrl>>, <<LoginUrl, HomeUrl, LoginErrUrl>>}

OrchParallelExtract ==
    /\ orch_calls < MaxWorkflows
    /\ \E urls \in UrlLists, so \in StartFor(crawl_engine) :
       \E ros \in [1..Len(urls) -> RunOutcomes] :
          Workflow("parallel_extract", urls,
                   parallel_extract(mcp_session, crawl_engine, results,
                                    urls, so, ros))

OrchDynamicContentExtract ==
    /\ orch_calls < MaxWorkflows
    /\ \E scroll_times \in (-1)..MaxScroll, so \in StartFor(crawl_engine),
          ro \in RunOutcomes :
          WorkflowWith("dynamic_content_extract", <<HomeUrl>>,
                       [NoArgs EXCEPT !.scroll_times = scroll_times],
                       dynamic_content_extract(mcp_session, crawl_engine,
                                               results, HomeUrl, "v",
                                               scroll_times, so, ro))

\* the form_data dicts handed to form_submit_extract, as the list of their
\* items; the last has a value that is None
FormDatas ==
    {<<>>,
     <<[selector |-> "f1", value |-> "v"],
       [selector |-> "f2", value |-> "v"]>>,
     <<[selector |-> "f1", value |-> NoneStr],
       [selector |-> "f2", value |-> "v"]>>}

OrchFormSubmitExtract ==
    /\ orch_calls < MaxWorkflows
    /\ \E url \in {LoginUrl, EmptyUrl}, form_data \in FormDatas,
          so \in StartFor(crawl_engine), ro \in RunOutcomes :
          WorkflowWith("form_submit_extract", <<url>>,
                       [NoArgs EXCEPT !.form_data = form_data],
                       form_submit_extract(mcp_session, crawl_engine,
                                           results, url, form_data, so,
                                           ro))

OrchNext ==
    \/ OrchNavigateAndExtract
    \/ OrchLoginAndExtract
    \/ OrchInteractiveCrawl
    \/ OrchParallelExtract
    \/ OrchDynamicContentExtract
    \/ OrchFormSubmitExtract
    \/ CrawlEngineInitialize
    \/ CrawlEngineClose

SpecOrch == Init /\ [][OrchNext]_vars

(***************************************************************************)
(* Callers of the simulated MCPBridge: one action per method                *)
(***************************************************************************)
SimCall(op, name, r) ==
    /\ sim_calls < MaxCalls
    /\ sim_bridge' = r.m
    /\ sim_calls' = sim_calls + 1
    /\ sim_outcome' = [op |-> op, name |-> name,
                       kind |-> IF r.raised THEN "raised" ELSE "returned",
                       res |-> r.res]
    /\ UNCHANGED <<concVars, sessionVars, bridgeVars, integrationVars, engineVars,
                   orchVars>>

SimInitializeBrowser ==
    SimCall("initialize_browser", "", initialize_browser(sim_bridge))

SimNavigateToUrl ==
    \E url \in UrlArgs :
        SimCall("navigate_to_url", "", navigate_to_url(sim_bridge, url))

SimBridgeTypeText ==
    \E text \in StrArgs :
        SimCall("type_text", "", SimTypeText(sim_bridge, "v", text))

SimBridgeClickElement ==
    SimCall("click_element", "", SimClickElement(sim_bridge, "v"))

SimBridgeWaitForElement ==
    SimCall("wait_for_element", "", SimWaitForElement(sim_bridge, "v"))

SimBridgeGetPageContent ==
    SimCall("get_page_content", "", SimGetPageContent(sim_bridge))

SimTakePageSnapshot ==
    SimCall("take_page_snapshot", "", take_page_snapshot(sim_bridge))

SimBridgeGetCurrentUrl ==
    SimCall("get_current_url", "", SimGetCurrentUrl(sim_bridge))

SimBridgeCloseBrowser ==
    SimCall("close_browser", "", SimCloseBrowser(sim_bridge))

SimCallMcpFunction ==
    \E function_name \in SimFunctionNames :
    \E params \in SimParamsFor(function_name) :
        SimCall("_call_mcp_function", function_name,
                Sim_call_mcp_function(sim_bridge, function_name, params))

SimNext ==
    \/ SimInitializeBrowser
    \/ SimNavigateToUrl
    \/ SimBridgeTypeText
    \/ SimBridgeClickElement
    \/ SimBridgeWaitForElement
    \/ SimBridgeGetPageContent
    \/ SimTakePageSnapshot
    \/ SimBridgeGetCurrentUrl
    \/ SimBridgeCloseBrowser
    \/ SimCallMcpFunction

SpecSim == Init /\ [][SimNext]_vars

(***************************************************************************)
(* parallel_extract as the event loop runs it: asyncio.gather schedules    *)
(* one task per url, in order; a task runs until it awaits crawler.start() *)
(* or crawler.arun(), and another task runs meanwhile.                     *)
(***************************************************************************)
GatherIdle == \A i \in 1..Len(gather.tasks) :
                 gather.tasks[i].pc \in {"done", "raised"}

\* the url lists handed to parallel_extract
GatherUrls == UNION {[1..n -> {HomeUrl, LoginUrl}] : n \in 1..MaxTasks}

\* tasks = [extract_content(url) for url in urls]; asyncio.gather(*tasks)
GatherBegin ==
    /\ GatherIdle
    /\ gather.round < MaxGathers
    /\ \E urls \in GatherUrls :
          gather' = [tasks |-> [i \in 1..Len(urls) |-> GatherTask(urls[i])],
                     fresh |-> crawl_engine.crawler = "None",
                     created |-> 0, started |-> 0,
                     round |-> gather.round + 1]
    /\ UNCHANGED <<flight, tsc, sessionVars, bridgeVars, integrationVars, engineVars,
                   orchVars, simVars>>

\* the event loop runs a ready task, the tasks in the order gather
\* created them
GatherTaskRun ==
    \E i \in 1..Len(gather.tasks) :
        /\ gather.tasks[i].pc = "ready"
        /\ \A j \in 1..(i - 1) : gather.tasks[j].pc # "ready"
        /\ LET r == TaskFirstStep(crawl_engine, gather.tasks[i])
           IN /\ crawl_engine' = r.e
              /\ gather' = [gather EXCEPT !.tasks[i] = r.t,
                                          !.created = @ + r.created]
        /\ UNCHANGED <<flight, tsc, sessionVars, bridgeVars, integrationVars,
                       engine_outcome, orchVars, simVars>>

\* crawler.start() completes and its task goes on to arun
GatherStartReturns ==
    \E i \in 1..Len(gather.tasks), so \in StartOutcomes :
        /\ gather.tasks[i].pc = "start"
        /\ LET r == TaskAfterStart(crawl_engine, gather.tasks[i], so)
           IN /\ crawl_engine' = r.e
              /\ gather' = [gather EXCEPT !.tasks[i] = r.t,
                                          !.started = @ + r.started]
        /\ UNCHANGED <<flight, tsc, sessionVars, bridgeVars, integrationVars,
                       engine_outcome, orchVars, simVars>>

\* crawler.arun() completes and its task ends
GatherArunReturns ==
    \E i \in 1..Len(gather.tasks), ro \in RunOutcomes :
        /\ gather.tasks[i].pc = "arun"
        /\ gather' = [gather EXCEPT
                         !.tasks[i] = TaskAfterArun(gather.tasks[i], ro)]
        /\ UNCHANGED <<flight, tsc, sessionVars, bridgeVars, integrationVars, engineVars,
                       orchVars, simVars>>

\* between two parallel_extract calls the caller may close the engine
GatherEngineClose == GatherIdle /\ CrawlEngineClose

GatherNext ==
    \/ GatherBegin
    \/ GatherTaskRun
    \/ GatherStartReturns
    \/ GatherArunReturns
    \/ GatherEngineClose

SpecGather == Init /\ [][GatherNext]_vars

(***************************************************************************)
(* execute_action calls that overlap on one MCPSession: a call runs until  *)
(* its wrapper operation sleeps, other calls run meanwhile, and the        *)
(* sleeping calls resume in any order.                                     *)
(***************************************************************************)
FlightExecute ==
    \E action \in ActionNames :
    \E kw \in KwargsFor(action) :
        /\ flight.started < MaxFlights
        /\ LET r == ExecuteUntilSuspended(mcp_session, action, kw)
           IN /\ mcp_session' = r.session
              /\ flight' = [suspended |-> flight.suspended \o r.pending,
                            started |-> flight.started + 1,
                            prev |-> mcp_session.history]
        /\ dispatched' = dispatched + 1
        /\ UNCHANGED <<gather, tsc, outcome, bridgeVars, integrationVars,
                       engineVars, orchVars, simVars>>

FlightResume ==
    \E i \in 1..Len(flight.suspended) :
        /\ mcp_session' = ResumeExecute(mcp_session, flight.suspended[i])
        /\ flight' = [flight EXCEPT !.suspended = Without(@, i),
                                    !.prev = mcp_session.history]
        /\ UNCHANGED <<gather, tsc, dispatched, outcome, bridgeVars,
                       integrationVars, engineVars, orchVars, simVars>>

FlightNext == FlightExecute \/ FlightResume

SpecFlight == Init /\ [][FlightNext]_vars

(***************************************************************************)
(* Threads on one ThreadSafeCrawler: each step is one statement of one     *)
(* thread.                                                                 *)
(***************************************************************************)
seqVars == <<sessionVars, bridgeVars, integrationVars, engineVars, orchVars,
             simVars>>

ThreadStep(t) == tsc' = t /\ UNCHANGED <<gather, flight, seqVars>>

TscCallerEnter ==
    \E c \in 1..MaxCallers, via \in {"initialize", "_run_in_loop"} :
        /\ tsc.callers[c].pc = "idle"
        /\ ThreadStep(CallerEnter(tsc, c, via))

TscCallerRunCheck ==
    \E c \in 1..MaxCallers :
        /\ tsc.callers[c].pc = "run_check"
        /\ ThreadStep(CallerRunCheck(tsc, c))

TscCallerInitCheck ==
    \E c \in 1..MaxCallers :
        /\ tsc.callers[c].pc = "init_check"
        /\ ThreadStep(CallerInitCheck(tsc, c))

TscCallerSpawn ==
    \E c \in 1..MaxCallers :
        /\ tsc.callers[c].pc = "spawn"
        /\ ThreadStep(CallerSpawn(tsc, c))

TscCallerPoll ==
    \E c \in 1..MaxCallers, timeout \in BOOLEAN :
        /\ tsc.callers[c].pc = "poll"
        /\ ThreadStep(CallerPoll(tsc, c, timeout))

TscCallerSubmit ==
    \E c \in 1..MaxCallers :
        /\ tsc.callers[c].pc = "submit"
        /\ ThreadStep(CallerSubmit(tsc, c))

TscLoopNew ==
    \E k \in 1..Len(tsc.loops) :
        /\ tsc.loops[k] = "new_loop"
        /\ ThreadStep(LoopNew(tsc, k))

TscLoopCreate ==
    \E k \in 1..Len(tsc.loops) :
        /\ tsc.loops[k] = "create"
        /\ ThreadStep(LoopCreate(tsc, k))

TscLoopStart ==
    \E k \in 1..Len(tsc.loops), so \in StartOutcomes :
        /\ tsc.loops[k] = "start"
        /\ ThreadStep(LoopStart(tsc, k, so))

ThreadNext ==
    \/ TscCallerEnter
    \/ TscCallerRunCheck
    \/ TscCallerInitCheck
    \/ TscCallerSpawn
    \/ TscCallerPoll
    \/ TscCallerSubmit
    \/ TscLoopNew
    \/ TscLoopCreate
    \/ TscLoopStart

SpecThread == Init /\ [][ThreadNext]_vars

(***************************************************************************)
(* Claims                                                                  *)
(***************************************************************************)
Last(q) == q[Len(q)]

\* C1: the history of an MCPSession has one entry per execute_action call
\* made on it, whether the call succeeded or failed, and the entry of a
\* failed call is marked failed.
C1_HistoryCountsCalls ==
    /\ Len(mcp_session.history) = dispatched
    /\ outcome.op = "execute_action"
         => /\ outcome.kind = "returned"
            /\ Last(mcp_session.history) = outcome.result
            /\ outcome.name \notin SupportedActions
                 => Last(mcp_session.history).status = "error"

\* C2: dispatching a name outside the supported vocabulary returns a
\* failure result with the fixed unknown-action error, enters no wrapper
\* operation / makes no Playwright call, leaves the object as it was, and
\* does not raise - for MCPSession.execute_action and for
\* MCPBridge._call_mcp_function alike.
C2_UnknownNameFails ==
    /\ (outcome.op = "execute_action"
          /\ outcome.name \notin SupportedActions)
         => /\ outcome.kind = "returned"
            /\ outcome.result = [action |-> outcome.name,
                                 status |-> "error",
                                 message |-> "Unknown action",
                                 url |-> None]
            /\ outcome.ops = <<>>
    /\ (bridge_outcome.op = "_call_mcp_function"
          /\ bridge_outcome.name \notin FunctionNames)
         => /\ bridge_outcome.res =
                  MCPResult(FALSE, "None", None, "Unknown MCP function")
            /\ bridge_outcome.backend = <<>>
            /\ mcp_bridge = bridge_outcome.before

\* C2 witness: an unknown action was dispatched on the session after other
\* calls, and an unmapped function name was sent to the bridge
C2_Witness ==
    /\ outcome.op = "execute_action"
    /\ outcome.name = "close"
    /\ Len(mcp_session.history) >= 1
    /\ bridge_outcome.op = "_call_mcp_function"
    /\ bridge_outcome.name = "browser_tab_list"

\* C3: the bridge's current URL is set exactly when a navigate has
\* succeeded and close_browser has not been called since.
C3_UrlIffNavigated ==
    (mcp_bridge.current_page_url # None) <=> navigated

\* C4: every close - MCPBridge.close_browser,
\* RealMCPIntegration.close_session, CrawlEngine.close - returns with
\* success and does not raise, whatever the state it is called in (so also
\* the second of two closes in a row, and a close before any launch).  A
\* close that returns no value counts as a success when it does not raise.
C4_CloseReturnsSuccess ==
    /\ bridge_outcome.op = "close_browser" => bridge_outcome.res.success
    /\ auth_outcome.op = "close_session"
         => (auth_outcome.result.value = "dict"
                => auth_outcome.result.success)
    /\ engine_outcome.op = "close" => engine_outcome.kind = "returned"

\* no Playwright object is held by the bridge b and it reports no browser
Released(b) ==
    /\ b._page = "None"
    /\ b._context = "None"
    /\ b._browser = "None"
    /\ ~is_browser_active(b)

\* C5: when a close returns, with success or with failure, the bridge
\* holds no page, context or browser and reports no active browser.
C5_CloseReleasesAll ==
    /\ bridge_outcome.op = "close_browser" => Released(mcp_bridge)
    /\ auth_outcome.op = "close_session"
         => Released(auth_outcome.bridge_after)

\* the bridge calls of the authentication workflow, in order, and the
\* error each of the first five returns with when it fails
StepMethod ==
    <<"navigate", "wait_for_element", "type_text", "type_text",
      "click_element", "get_current_url">>

StepError ==
    <<"Navigation failed", "Username field not found",
      "Username entry failed", "Password entry failed",
      "Form submission failed">>

\* C6: in authenticate_with_mcp the first bridge call that fails (navigate,
\* wait for the username field, type username, type password, click
\* submit) is the last bridge call issued, and the failure returned names
\* that step.
C6_AuthHaltsAtFirstFailure ==
    auth_outcome.op = "authenticate_with_mcp" =>
        LET cs == auth_outcome.calls
        IN /\ Len(cs) <= Len(StepMethod)
           /\ \A i \in 1..Len(cs) : cs[i].method = StepMethod[i]
           /\ \A i \in 1..Len(cs) :
                 (i <= Len(StepError) /\ ~cs[i].success)
                     => /\ i = Len(cs)
                        /\ auth_outcome.result.value = "dict"
                        /\ ~auth_outcome.result.success
                        /\ auth_outcome.result.error = StepError[i]

\* C6 witness: an authentication whose password entry failed, on a second
\* attempt
C6_Witness ==
    /\ auth_outcome.op = "authenticate_with_mcp"
    /\ Len(auth_outcome.calls) = 4
    /\ ~auth_outcome.calls[4].success
    /\ auth_outcome.result.error = "Password entry failed"
    /\ auth_calls = 2

\* C7: authenticate_with_mcp reports success only if the page is no longer
\* at the login URL after the submit and the settle wait; when the page is
\* still at the login URL it returns the "still on login page" failure and
\* does not mark the session authenticated.
C7_AuthenticatedOnlyIfUrlChanged ==
    auth_outcome.op = "authenticate_with_mcp" =>
        LET page == auth_outcome.bridge_after.page_url
            submitted == Len(auth_outcome.calls) = Len(StepMethod)
        IN /\ auth_outcome.result.success
                => page # auth_outcome.login_url
           /\ (submitted /\ page = auth_outcome.login_url)
                => /\ ~auth_outcome.result.success
                   /\ auth_outcome.result.error =
                        "Authentication failed - still on login page"
                   /\ mcp_integration.session_active =
                        auth_outcome.before.session_active

WorkflowNames ==
    {"navigate_and_extract", "login_and_extract", "interactive_crawl",
     "dynamic_content_extract", "form_submit_extract"}

\* C8: when the extraction of one url of parallel_extract fails, by a
\* failure result or by an exception, the call still returns: the list has
\* one entry per input url, in input order, and every url whose own
\* extraction succeeded has its success entry.
C8_ParallelIsolatesFailure ==
    (/\ orch_outcome.op = "parallel_extract"
     /\ \E i \in 1..Len(orch_outcome.steps) : ~orch_outcome.steps[i].ok)
        => /\ orch_outcome.kind = "returned"
           /\ Len(orch_outcome.value) = Len(orch_outcome.urls)
           /\ \A i \in 1..Len(orch_outcome.value) :
                 /\ orch_outcome.value[i].extraction.url =
                        orch_outcome.urls[i]
                 /\ orch_outcome.steps[i].ok
                        => orch_outcome.value[i].extraction.success

\* C9: in every orchestrator workflow no dispatch and no extraction is
\* issued after a step that failed: a failed step is the last step of its
\* workflow.
C9_WorkflowStopsAtFailure ==
    orch_outcome.op \in WorkflowNames =>
        \A i \in 1..Len(orch_outcome.steps) :
            ~orch_outcome.steps[i].ok => i = Len(orch_outcome.steps)

\* C10: an orchestrator workflow never raises: whatever the extraction
\* backend or a dispatch does, the call returns.
C10_WorkflowNeverRaises ==
    orch_outcome.op \in WorkflowNames \cup {"parallel_extract"}
        => orch_outcome.kind = "returned"

\* the prefixes of the error messages the bridge's except branches build
FailurePrefixes ==
    {"Navigation failed", "Type failed", "Click failed", "Wait failed",
     "Navigation wait failed", "Content extraction failed",
     "Screenshot failed", "JavaScript evaluation failed",
     "URL retrieval failed", "Browser close failed", "Snapshot failed",
     "MCP function call failed"}

\* C11: when the layer below a dispatcher raises during an operation, the
\* operation returns a failure result that carries the exception message
\* and no data; no exception leaves MCPSession.execute_action or a bridge
\* operation.
C11_BackendRaiseBecomesFailure ==
    /\ outcome.op = "execute_action" => outcome.kind = "returned"
    /\ bridge_outcome.caught
         => /\ ~bridge_outcome.res.success
            /\ bridge_outcome.res.data = "None"
            /\ \E p \in FailurePrefixes :
                  bridge_outcome.res.error = p \o ": " \o ExcText

\* C12: a navigate without url, or a type without selector or text, is
\* rejected by execute_action with a failure result before any wrapper
\* operation is entered, and the session's current URL stays as it was.
C12_ParamsValidated ==
    (/\ outcome.op = "execute_action"
     /\ \/ outcome.name = "navigate" /\ outcome.kw.url = None
        \/ /\ outcome.name = "type"
           /\ (outcome.kw.selector = NoneStr \/ outcome.kw.text = NoneStr))
        => /\ outcome.kind = "returned"
           /\ outcome.result.status = "error"
           /\ outcome.ops = <<>>
           /\ SessionGetCurrentUrl(mcp_session) =
                  SessionGetCurrentUrl(outcome.before)

\* an MCPResult is populated one way or the other: a success carries no
\* error, a failure carries an error and no data
Populated(res) ==
    /\ res.success => res.error = "None"
    /\ ~res.success => res.error # "None" /\ res.data = "None"

\* C13: every bridge operation, of the Playwright bridge and of the
\* simulated bridge, returns a result that is populated one way or the
\* other: a success without error, or a failure with an error and no data.
C13_ResultPopulated ==
    /\ (bridge_outcome.op # "" /\ bridge_outcome.op # "launch_browser")
         => Populated(bridge_outcome.res)
    /\ sim_outcome.op # ""
         => /\ sim_outcome.kind = "returned"
            /\ Populated(sim_outcome.res)

\* C14: one dispatch of a supported action makes exactly one call on the
\* layer below the dispatcher: an execute_action that returns has entered
\* one wrapper operation, and a _call_mcp_function that reaches the
\* backend has made one Playwright call.
C14_OneBackendCallPerDispatch ==
    /\ (/\ outcome.op = "execute_action"
        /\ outcome.name \in SupportedActions
        /\ outcome.kind = "returned")
         => Len(outcome.ops) = 1
    /\ (/\ bridge_outcome.op = "_call_mcp_function"
        /\ bridge_outcome.name \in FunctionNames
        /\ bridge_outcome.backend # <<>>)
         => Len(bridge_outcome.backend) = 1

\* an href with a scheme, and the origin it names
IsAbsolute(href) == Len(href) >= 3 /\ href[2] = "://"
Origin(href) == SubSeq(href, 1, 3)

\* internal as the claim has it: relative, or of the base url's origin
IsInternal(href, base_url) ==
    \/ ~IsAbsolute(href)
    \/ base_url # None /\ Origin(href) = Origin(base_url)

\* the elements of a sequence
Range(q) == {q[i] : i \in 1..Len(q)}

\* C15: extract_from_html puts an anchor's href among the internal links
\* exactly when it is relative or of the base url's origin, and among the
\* external links exactly when it is absolute and of another origin.
C15_LinksPartitioned ==
    (engine_outcome.op = "extract_from_html"
       /\ engine_outcome.result.success)
        => \A h \in Range(engine_outcome.html_content.a) :
              /\ h \in Range(engine_outcome.result.internal)
                    <=> IsInternal(h, engine_outcome.base_url)
              /\ h \in Range(engine_outcome.result.external)
                    <=> ~IsInternal(h, engine_outcome.base_url)

\* C16: extract_from_html always returns; when parsing raised the result
\* has success false, an error detail, and empty content, links and
\* images.
C16_HtmlExtractionNeverRaises ==
    engine_outcome.op = "extract_from_html"
        => /\ engine_outcome.kind = "returned"
           /\ (engine_outcome.html_content.none \/ engine_outcome.po # "ok")
                => /\ ~engine_outcome.result.success
                   /\ engine_outcome.result.error # "None"
                   /\ engine_outcome.result.content = ""
                   /\ engine_outcome.result.internal = <<>>
                   /\ engine_outcome.result.external = <<>>
                   /\ engine_outcome.result.images = <<>>

\* C16 witness: the parser raised on a document with two anchors and an
\* image, and a result came back
C16_Witness ==
    /\ engine_outcome.op = "extract_from_html"
    /\ engine_outcome.po = "raise"
    /\ Len(engine_outcome.html_content.a) = 2
    /\ engine_outcome.html_content.img # <<>>
    /\ engine_outcome.kind = "returned"

\* the names of the steps of a workflow, in the order issued
StepNames(steps) == [i \in 1..Len(steps) |-> steps[i].step]

\* the steps interactive_crawl is to issue for a list of actions: each
\* action, followed by get_html and an extraction when it is flagged
RECURSIVE ActionSteps(_)
ActionSteps(actions) ==
    IF actions = <<>> THEN <<>>
    ELSE <<Head(actions).type>>
         \o (IF Head(actions).extract_after THEN <<"get_html", "extract">>
             ELSE <<>>)
         \o ActionSteps(Tail(actions))

\* the actions flagged extract_after, in list order
Flagged(actions) == SelectSeq(actions, LAMBDA a : a.extract_after)

\* C17: interactive_crawl navigates to start_url, then dispatches every
\* action once in list order, each flagged action followed by get_html
\* and an extraction before the next action; it returns one entry per
\* flagged action, in action order.
C17_InteractiveCrawlOrder ==
    orch_outcome.op = "interactive_crawl" =>
        LET actions == orch_outcome.args.actions
        IN /\ StepNames(orch_outcome.steps) =
                  <<"navigate">> \o ActionSteps(actions)
           /\ orch_outcome.kind = "returned"
           /\ Len(orch_outcome.value) = Len(Flagged(actions))
           /\ \A i \in 1..Len(orch_outcome.value) :
                 orch_outcome.value[i].kind = Flagged(actions)[i].type

\* the URL each flagged action's extraction is to receive: the url of the
\* most recent navigate action up to and including the flagged one, the
\* start url when there was none
RECURSIVE ExpectedUrls(_, _)
ExpectedUrls(actions, current_url) ==
    IF actions = <<>> THEN <<>>
    ELSE LET a == Head(actions)
             url == IF a.type = "navigate" /\ a.has_params
                       /\ a.params.url # None
                    THEN a.params.url
                    ELSE current_url
         IN (IF a.extract_after THEN <<url>> ELSE <<>>)
            \o ExpectedUrls(Tail(actions), url)

\* C18: in interactive_crawl the URL context of each extraction is the
\* URL of the most recent navigate action dispatched so far, the action
\* the extraction follows included, and start_url when there was none.
C18_ExtractionUrlTracksNavigate ==
    (orch_outcome.op = "interactive_crawl"
     /\ orch_outcome.kind = "returned") =>
        LET urls == ExpectedUrls(orch_outcome.args.actions,
                                 orch_outcome.urls[1])
        IN /\ Len(orch_outcome.value) = Len(urls)
           /\ \A i \in 1..Len(urls) : orch_outcome.value[i].url = urls[i]

\* the dispatches dynamic_content_extract is to make for scroll_times
ExpectedScrollDispatches(scroll_times) ==
    <<"navigate", "wait">>
    \o [i \in 1..(IF scroll_times > 0 THEN scroll_times ELSE 0) |->
           "evaluate"]

C19_WitnessNoScroll ==
    /\ orch_outcome.op = "dynamic_content_extract"
    /\ orch_outcome.args.scroll_times < 0

\* C20: form_submit_extract dispatches navigate, one type per form field
\* in the map's order, exactly one click after all the types, and then
\* extracts from the URL the session shows at that moment.
C20_FormSubmitOrder ==
    orch_outcome.op = "form_submit_extract" =>
        LET form_data == orch_outcome.args.form_data
        IN /\ StepNames(orch_outcome.steps) =
                  <<"navigate">>
                  \o [i \in 1..Len(form_data) |-> "type"]
                  \o <<"click", "extract">>
           /\ orch_outcome.kind = "returned" =>
                 /\ Len(orch_outcome.value) = 1
                 /\ orch_outcome.value[1].url =
                       Or(SessionGetCurrentUrl(mcp_session),
                          orch_outcome.urls[1])

\* C21: one authenticate_with_mcp call issues its bridge calls in the
\* fixed order navigate, wait for the username field, type username, type
\* password, click submit, URL check; a step is issued only after all the
\* earlier ones succeeded, and none is issued twice.
C21_AuthIsLinear ==
    auth_outcome.op = "authenticate_with_mcp" =>
        LET cs == auth_outcome.calls
        IN /\ Len(cs) >= 1
           /\ [i \in 1..Len(cs) |-> cs[i].method]
                 = SubSeq(StepMethod, 1, Len(cs))
           /\ \A i \in 1..(Len(cs) - 1) : cs[i].success
           /\ auth_outcome.result.success => Len(cs) = Len(StepMethod)

\* C21 witness: a second authentication that went through all six steps
\* and succeeded
C21_Witness ==
    /\ auth_outcome.op = "authenticate_with_mcp"
    /\ Len(auth_outcome.calls) = Len(StepMethod)
    /\ auth_outcome.result.success
    /\ auth_calls = 2

\* C22: when parallel_extract runs on an engine that had no crawler, the
\* crawler is created and started exactly once, no extraction task calls
\* arun before start() has completed, and each task's result is that of
\* its own url.
C22_CrawlerStartedOnceBeforeArun ==
    gather.fresh =>
        /\ gather.created <= 1
        /\ gather.started <= 1
        /\ \A i \in 1..Len(gather.tasks) :
              LET t == gather.tasks[i]
              IN /\ t.pc \in {"arun", "done"} => t.at = "started"
                 /\ t.pc = "done" => t.result.url = t.url

\* C23: authenticate_with_mcp reports success and sets session_active
\* only if the current-URL query after the submit succeeded and returned
\* a URL; when the query fails the workflow does not report Authenticated.
C23_SuccessNeedsUrlQuery ==
    (auth_outcome.op = "authenticate_with_mcp"
     /\ Len(auth_outcome.calls) = Len(StepMethod)) =>
        LET queried == Last(auth_outcome.calls).success
        IN /\ auth_outcome.result.success => queried
           /\ ~queried =>
                 /\ mcp_integration.session_active
                       = auth_outcome.before.session_active
                 /\ mcp_integration.authentication_state
                       = auth_outcome.before.authentication_state

\* C24: a failed authenticate_with_mcp leaves session_active, current_url
\* and authentication_state as they were before the call and only appends
\* to action_history, so is_authenticated() returns what it returned
\* before the attempt.
C24_FailedAuthKeepsState ==
    (auth_outcome.op = "authenticate_with_mcp"
     /\ ~auth_outcome.result.success) =>
        LET g0 == auth_outcome.before
            g == mcp_integration
        IN /\ g.session_active = g0.session_active
           /\ g.current_url = g0.current_url
           /\ g.authentication_state = g0.authentication_state
           /\ Len(g.action_history) > Len(g0.action_history)
           /\ SubSeq(g.action_history, 1, Len(g0.action_history))
                 = g0.action_history
           /\ is_authenticated(g) = is_authenticated(g0)

\* C24 witness: an attempt failed on a session that an earlier attempt had
\* authenticated
C24_Witness ==
    /\ auth_outcome.op = "authenticate_with_mcp"
    /\ ~auth_outcome.result.success
    /\ auth_outcome.before.session_active
    /\ is_authenticated(mcp_integration)

\* C25: in every state reached through launch_browser, navigate,
\* close_browser and their failures, is_browser_active() is true only if
\* the bridge holds a page of a browser that is open (launched and not
\* closed since, a failed relaunch included).
C25_ActiveOnlyWithOpenPage ==
    is_browser_active(mcp_bridge) =>
        /\ mcp_bridge._page = "open"
        /\ mcp_bridge._browser = "open"

\* C26: the session history is append-only, and when several
\* execute_action calls overlap on one session each call that has ended
\* has appended exactly one entry: none is lost.
C26_HistoryAppendOnly ==
    /\ Len(flight.prev) <= Len(mcp_session.history)
    /\ SubSeq(mcp_session.history, 1, Len(flight.prev)) = flight.prev
    /\ Len(mcp_session.history) + Len(flight.suspended) = flight.started

\* C27: extract_authenticated_content on a session that is not
\* authenticated (never authenticated, or closed) returns a failure
\* without a navigation or a content fetch and without changing
\* current_url or any other state of the session.
C27_UnauthenticatedExtractIsInert ==
    (auth_outcome.op = "extract_authenticated_content"
     /\ ~is_authenticated(auth_outcome.before)) =>
        /\ auth_outcome.result.value = "dict"
        /\ ~auth_outcome.result.success
        /\ auth_outcome.calls = <<>>
        /\ mcp_integration = auth_outcome.before
        /\ auth_outcome.bridge_after = auth_outcome.bridge_before

\* C27 witness: an extraction was asked of a session that close_session
\* had closed
C27_Witness ==
    /\ auth_outcome.op = "extract_authenticated_content"
    /\ ~is_authenticated(auth_outcome.before)
    /\ auth_outcome.before.action_history # <<>>
    /\ Last(auth_outcome.before.action_history) = "close"

\* the entry a bridge call logs when it succeeds: navigate, type_text and
\* click_element log, called directly or through _call_mcp_function
Logs(op, name) ==
    CASE op = "navigate" \/ name = "browser_navigate" -> <<"navigate">>
      [] op = "type_text" \/ name = "browser_type" -> <<"type">>
      [] op = "click_element" \/ name = "browser_click" -> <<"click">>
      [] OTHER -> <<>>

\* C28: MCPBridge.action_history grows by exactly one entry on each
\* successful navigate, type_text or click_element, and is left unchanged
\* by every failed operation and by every wait, evaluate, content,
\* snapshot, screenshot, URL-query and close operation.
C28_BridgeHistoryLogsActions ==
    bridge_outcome.op # "" =>
        mcp_bridge.action_history =
            bridge_outcome.before.action_history
            \o (IF bridge_outcome.res.success
                THEN Logs(bridge_outcome.op, bridge_outcome.name)
                ELSE <<>>)

\* C28 witness: a wait succeeded on a bridge that had logged a navigate
\* and a type
C28_Witness ==
    /\ bridge_outcome.op = "wait_for_element"
    /\ bridge_outcome.res.success
    /\ mcp_bridge.action_history = <<"navigate", "type">>

\* the number of entries a completed workflow is to append
ExpectedEntries(o) ==
    CASE o.op = "parallel_extract" -> Len(o.urls)
      [] o.op = "interactive_crawl" -> Len(Flagged(o.args.actions))
      [] OTHER -> 1

\* C29: CrawlOrchestrator.results is append-only across workflows: a
\* completed navigate_and_extract, login_and_extract,
\* dynamic_content_extract or form_submit_extract appends one entry,
\* parallel_extract one entry per url in input order, interactive_crawl
\* one entry per extract_after action, and a workflow that raises appends
\* nothing.
C29_ResultsAppendOnly ==
    orch_outcome.op # "" =>
        /\ orch_outcome.kind = "raised" => results = orch_outcome.before
        /\ orch_outcome.kind = "returned" =>
              /\ results = orch_outcome.before \o orch_outcome.value
              /\ Len(orch_outcome.value) = ExpectedEntries(orch_outcome)
              /\ orch_outcome.op = "parallel_extract" =>
                    \A i \in 1..Len(orch_outcome.urls) :
                        orch_outcome.value[i].url = orch_outcome.urls[i]

\* C29 witness: a parallel_extract of several urls completed after an
\* earlier workflow had left an entry
C29_Witness ==
    /\ orch_outcome.op = "parallel_extract"
    /\ orch_outcome.kind = "returned"
    /\ Len(orch_outcome.urls) > 1
    /\ orch_outcome.before # <<>>
    /\ Len(results) = Len(orch_outcome.before) + Len(orch_outcome.urls)

\* C30: for one ThreadSafeCrawler at most one event-loop thread and one
\* crawler are started, also when initialize or _run_in_loop is entered
\* from several threads before initialisation has completed, and every
\* coroutine is submitted to the loop on which the crawler was started.
C30_InitializeIdempotent ==
    /\ Len(tsc.loops) <= 1
    /\ \A i \in 1..Len(tsc.submitted) :
          tsc.submitted[i].loop = tsc.submitted[i].crawler

====
